---- MODULE Spec2Model ----
(***************************************************************************)
(* Model of the inference core of adrianTJenkins/ai-inference:             *)
(* src/src/inference.ts (simpleInference, multiMcpInference and the        *)
(* chatCompletion response normalizer).                                    *)
(*                                                                         *)
(* One behaviour is one call of multiMcpInference(request, mcpClients).    *)
(* The chat model and the MCP servers are the environment: every           *)
(* completion call and every tool invocation returns a value chosen from   *)
(* a bounded set.                                                          *)
(***************************************************************************)
EXTENDS Integers, Sequences, FiniteSets, TLC

VARIABLES
    request,          \* the InferenceRequest: [messages, responseFormat]
    mcpClients,       \* the list of live server handles
    pc,               \* position of the call
    messages,         \* the running conversation (inference.ts:102)
    iterationCount,   \* inference.ts:104
    finalMessage,     \* inference.ts:106
    chatRequest,      \* the completion request in flight (inference.ts:112)
    modelResponse,    \* content of the latest answer (inference.ts:135)
    toolCalls,        \* tool calls of the latest answer (inference.ts:136)
    toolIdx,          \* position of the for-of loop over toolCalls
    toolResults,      \* inference.ts:165
    result,           \* the returned value
    error,            \* the thrown error
    completionCalls,  \* history: number of completion calls issued
    invoked,          \* history: the callTool invocations, in order
    finalSetAt,       \* history: completionCalls when finalMessage was set
    deviations,       \* environment: departures from the routine answer so far
    transport,        \* normalizer alone: what create() resolved to (inference.ts:265)
    normalized,       \* normalizer alone: what chatCompletion returned or threw
    factories,        \* registry: the Map of registered factories, in insertion order
    credentialsMap,   \* registry: the caller's Map of server id -> credential bag
    reports,          \* registry: history of the createConfigs* calls, in order
    enough,           \* registry: the latest hasMinimumServers call and its value
    subject,          \* factory alone: the factory that is called
    handed,           \* factory alone: the credential bag it is called with
    verdict,          \* factory alone: what its two methods returned or threw
    target,           \* connect alone: the descriptor the function is called with
    allowList,        \* connect alone: the allow-list of the filtering variant
    connection,       \* connect alone: the call, its steps and its promise
    inputs,           \* run alone: the inputs of the action and its configuration file
    running,          \* run alone: the position of run(), its locals and its history
    configFile,       \* loader alone: the configuration file and process.env
    loadResult        \* loader alone: what the functions of the loader returned or threw

\* The variables of the normalizer taken alone.
normVars == <<transport, normalized>>

\* The variables of one multiMcpInference call, its position aside.
loopVars == <<request, mcpClients, messages, iterationCount, finalMessage,
              chatRequest, modelResponse, toolCalls, toolIdx, toolResults,
              result, error, completionCalls, invoked, finalSetAt, deviations>>

\* The variables of the server registry taken alone.
registryVars == <<factories, credentialsMap, reports, enough>>

\* The variables of one factory taken alone.
factoryVars == <<subject, handed, verdict>>

\* The variables of one connect call taken alone.
connectVars == <<target, allowList, connection>>

\* The variables of one run of the action taken alone.
runVars == <<inputs, running>>

\* The variables of the configuration loader taken alone.
loaderVars == <<configFile, loadResult>>

\* Everything outside the inference core and its normalizer.
setupVars == <<registryVars, factoryVars, connectVars, runVars, loaderVars>>

\* What the registry leaves alone.
outsideRegistry ==
    <<pc, loopVars, normVars, factoryVars, connectVars, runVars, loaderVars>>
\* What a factory leaves alone.
outsideFactory ==
    <<pc, loopVars, normVars, registryVars, connectVars, runVars, loaderVars>>
\* What a connect call leaves alone.
outsideConnect ==
    <<pc, loopVars, normVars, registryVars, factoryVars, runVars, loaderVars>>
\* What a run of the action leaves alone.
outsideRun ==
    <<pc, loopVars, normVars, registryVars, factoryVars, connectVars,
      loaderVars>>
\* What the configuration loader leaves alone.
outsideLoader ==
    <<pc, loopVars, normVars, registryVars, factoryVars, connectVars, runVars>>

vars == <<request, mcpClients, pc, messages, iterationCount, finalMessage,
          chatRequest, modelResponse, toolCalls, toolIdx, toolResults,
          result, error, completionCalls, invoked, finalSetAt, deviations,
          normVars, setupVars>>

(***************************************************************************)
(* Bounds of the environment.                                              *)
(***************************************************************************)
\* Tool calls one answer may carry.
MaxToolCalls == 2
\* How many times in one run the environment departs from the routine of an
\* answer that keeps the loop going (one valid call of tool "a", no text, a
\* one-block text result).  The answers that end the run are not counted.
MaxDeviations == 1

(***************************************************************************)
(* JavaScript values.                                                      *)
(***************************************************************************)
\* null / undefined content of a message; never a text the model produces.
Null == "<null>"
Undefined == "<undefined>"
NoError == "<none>"
NoResult == "<pending>"

\* JavaScript truthiness of a (possibly absent) string.
Falsy(s) == s \in {Null, Undefined, ""}

\* `x || ''`
OrEmpty(s) == IF Falsy(s) THEN "" ELSE s

\* Faulty variant of OrNull: the content is returned as it is
OrNullIdentity(s) == s
\* `x || null`
OrNull(s) == IF Falsy(s) THEN Null ELSE s

Range(s) == {s[i] : i \in 1..Len(s)}

IsPrefix(s, t) == Len(s) <= Len(t) /\ SubSeq(t, 1, Len(s)) = s

(***************************************************************************)
(* Messages.                                                               *)
(***************************************************************************)
Message(role, content, hasCalls, calls, callId, name) ==
    [role |-> role, content |-> content, has_tool_calls |-> hasCalls,
     tool_calls |-> calls, tool_call_id |-> callId, name |-> name]

SeedMessage(role, content) == Message(role, content, FALSE, <<>>, "", "")

\* inference.ts:140-144
AssistantMessage(content, hasCalls, calls) ==
    Message("assistant", OrEmpty(content), hasCalls, calls, "", "")

\* inference.ts:151-154
ReformatMessage(format) ==
    Message("user",
            "Please provide your response in the exact " \o format
                \o " format specified.",
            FALSE, <<>>, "", "")

\* inference.ts:171-176, 202-207, 212-217
ToolResultMessage(call, content) ==
    Message("tool", content, FALSE, <<>>, call.id, call.name)

(***************************************************************************)
(* The request and the handles.                                            *)
(***************************************************************************)
NoFormat == "<no responseFormat>"

\* request.messages: a system prompt, an example exchange, the question.
Seed ==
    <<SeedMessage("system", "rules"), SeedMessage("user", "example"),
      SeedMessage("assistant", "earlier"), SeedMessage("user", "question")>>

Requests ==
    { [messages |-> Seed, responseFormat |-> f] :
        f \in {NoFormat, "json_schema"} }

Handle(id, name, tools) == [id |-> id, name |-> name, tools |-> tools]

H1 == Handle("github", "GitHub MCP", <<"a", "s">>)
H2 == Handle("sentry", "Sentry MCP", <<"b", "s">>)

ClientLists == { <<>>, <<H1, H2>> }

\* "a" and "b" have one owner, "s" has two, "c" has none.
ToolNames == {"a", "b", "s", "c"}
\* The names the model asks for.
CalledNames == {"a", "s", "c"}

\* inference.ts:82-89
RECURSIVE TagTools(_, _)
TagTools(client, k) ==
    IF k > Len(client.tools) THEN <<>>
    ELSE <<[name |-> client.tools[k], serverId |-> client.id,
            serverName |-> client.name]>> \o TagTools(client, k + 1)

RECURSIVE FlatMapTools(_, _)
FlatMapTools(clients, i) ==
    IF i > Len(clients) THEN <<>>
    ELSE TagTools(clients[i], 1) \o FlatMapTools(clients, i + 1)

AllTools(clients) == FlatMapTools(clients, 1)

\* inference.ts:92-97: the Map is filled in list order, a later set()
\* overwrites an earlier one.  0 stands for "no entry".
\* Faulty variant of SetTools: a name that already has an entry keeps it
RECURSIVE SetToolsKeepFirst(_, _, _, _)
SetToolsKeepFirst(map, client, i, k) ==
    IF k > Len(client.tools) THEN map
    ELSE SetToolsKeepFirst(
             IF map[client.tools[k]] = 0
             THEN [map EXCEPT ![client.tools[k]] = i]
             ELSE map,
             client, i, k + 1)
RECURSIVE SetTools(_, _, _, _)
SetTools(map, client, i, k) ==
    IF k > Len(client.tools) THEN map
    ELSE SetTools([map EXCEPT ![client.tools[k]] = i], client, i, k + 1)

RECURSIVE FillToolToServer(_, _, _)
FillToolToServer(map, clients, i) ==
    IF i > Len(clients) THEN map
    ELSE FillToolToServer(SetTools(map, clients[i], i, 1), clients, i + 1)

ToolToServer(clients) ==
    FillToolToServer([n \in ToolNames |-> 0], clients, 1)

(***************************************************************************)
(* The loop's constants and small steps.                                   *)
(***************************************************************************)
\* inference.ts:105
maxIterations == 16

\* Faulty variant of LoopGuard: an off-by-one cap
LoopGuardInclusive(i) == i <= maxIterations
\* inference.ts:108
LoopGuard(i) == i < maxIterations

\* Faulty variant of NextIteration: the counter is not advanced
NextIterationStuck(i) == i
\* inference.ts:109
NextIteration(i) == i + 1

\* Faulty variant of SchemaPending: the requested format is not consulted
SchemaPendingNever(format, final) == FALSE
\* inference.ts:149
SchemaPending(format, final) == format # NoFormat /\ ~final

\* Faulty variant of BuildRequest: the tool list is attached on every call
BuildRequestAlwaysTools(msgs, format, final, tools) ==
    [messages |-> msgs,
     has_tools |-> TRUE,
     tools |-> tools,
     response_format |-> IF final /\ format # NoFormat THEN format ELSE NoFormat]
\* inference.ts:112-125
BuildRequest(msgs, format, final, tools) ==
    IF final /\ format # NoFormat
    THEN [messages |-> msgs, has_tools |-> FALSE, tools |-> <<>>,
          response_format |-> format]
    ELSE [messages |-> msgs, has_tools |-> TRUE, tools |-> tools,
          response_format |-> NoFormat]

\* Faulty variant of BuildSimpleRequest: the response format is left out
BuildSimpleRequestNoFormat(msgs, format) ==
    [messages |-> msgs, has_tools |-> FALSE, tools |-> <<>>,
     response_format |-> NoFormat]
\* inference.ts:44-54
BuildSimpleRequest(msgs, format) ==
    [messages |-> msgs, has_tools |-> FALSE, tools |-> <<>>,
     response_format |-> format]

NoRequest ==
    [messages |-> <<>>, has_tools |-> FALSE, tools |-> <<>>,
     response_format |-> NoFormat]

\* Faulty variant of LastAssistantContent: the scan runs forward
RECURSIVE FirstAssistantFrom(_, _)
FirstAssistantFrom(msgs, i) ==
    IF i > Len(msgs) THEN Undefined
    ELSE IF msgs[i].role = "assistant" THEN msgs[i].content
    ELSE FirstAssistantFrom(msgs, i + 1)
FirstAssistantContent(msgs) == FirstAssistantFrom(msgs, 1)

RECURSIVE LastAssistantFrom(_, _)
LastAssistantFrom(msgs, i) ==
    IF i < 1 THEN Undefined
    ELSE IF msgs[i].role = "assistant" THEN msgs[i].content
    ELSE LastAssistantFrom(msgs, i - 1)
\* inference.ts:232-237: lastAssistantMessage?.content
LastAssistantContent(msgs) == LastAssistantFrom(msgs, Len(msgs))

\* Faulty variant of SeedIsCopied: the conversation aliases request.messages
SeedIsAliased == FALSE
\* inference.ts:102: [...request.messages] is a fresh array
SeedIsCopied == TRUE

\* What a push on `messages` does to the request.
RequestAfter(req, msgs) ==
    IF SeedIsCopied THEN req ELSE [req EXCEPT !.messages = msgs]

\* Faulty variant of AppendToolResults: the results are put in front
PrependToolResults(msgs, results) == results \o msgs
\* Faulty variant of AppendToolResults: the results are pushed last first
ReverseToolResults(msgs, results) ==
    msgs \o [i \in 1..Len(results) |-> results[Len(results) + 1 - i]]
\* inference.ts:221
AppendToolResults(msgs, results) == msgs \o results

\* No run of the loop makes the conversation longer than this: the seed, an
\* assistant message and at most MaxToolCalls results per iteration, and the
\* reformat message.
MaxConversation == Len(Seed) + maxIterations * (1 + MaxToolCalls) + 1

(***************************************************************************)
(* The chat-completion transport and the response normalizer.              *)
(***************************************************************************)
Answer(content, hasCalls, calls) ==
    [content |-> content, has_tool_calls |-> hasCalls, tool_calls |-> calls]

\* choices[0]?.message of a response whose choices array is empty
NoAnswer == Answer(Undefined, FALSE, <<>>)

Response(choices) == [choices |-> choices]

\* What client.chat.completions.create returns: a value that is a string or
\* not; a string parses as JSON or not; the (parsed) value is an object or
\* not, and has a `choices` field or not.
Raw(isString, jsonValid, isObject, hasChoices, response) ==
    [is_string |-> isString, json_valid |-> jsonValid, is_object |-> isObject,
     has_choices |-> hasChoices, response |-> response]

\* Faulty variant of chatCompletion: whatever parses is handed over
chatCompletionUnchecked(raw) ==
    IF raw.is_string /\ ~raw.json_valid
    THEN [ok |-> FALSE, error |-> "not valid JSON", response |-> Response(<<>>)]
    ELSE [ok |-> TRUE, error |-> NoError, response |-> raw.response]
\* inference.ts:258-291
chatCompletion(raw) ==
    IF raw.is_string /\ ~raw.json_valid
    THEN [ok |-> FALSE, error |-> "not valid JSON", response |-> Response(<<>>)]
    ELSE IF ~raw.is_object \/ ~raw.has_choices
    THEN [ok |-> FALSE, error |-> "no choices", response |-> Response(<<>>)]
    ELSE [ok |-> TRUE, error |-> NoError, response |-> raw.response]

\* inference.ts:134 (and :57): response.choices[0]?.message
FirstChoice(response) ==
    IF Len(response.choices) = 0 THEN NoAnswer ELSE response.choices[1]

\* A well-formed response arrives as an object or as its JSON text.
Deliveries(response) ==
    { Raw(s, TRUE, TRUE, TRUE, response) : s \in BOOLEAN }

MalformedRaws ==
    { Raw(TRUE, FALSE, FALSE, FALSE, Response(<<>>)),   \* "<html>..."
      Raw(TRUE, TRUE, TRUE, FALSE, Response(<<>>)),     \* "{\"error\":1}"
      Raw(TRUE, TRUE, FALSE, FALSE, Response(<<>>)),    \* "42"
      Raw(FALSE, TRUE, TRUE, FALSE, Response(<<>>)),    \* {error: 1}
      Raw(FALSE, TRUE, FALSE, FALSE, Response(<<>>)) }  \* null

(***************************************************************************)
(* The answers of the model.                                               *)
(***************************************************************************)
AnswerText(i) == "answer " \o ToString(i)

CallId(i, k) == "call_" \o ToString(i) \o "_" \o ToString(k)

ArgTexts == {"{}", "{bad"}

\* Faulty variant of ParsesAsJson: the argument text is handed over as it is
ParsesAsJsonUnchecked(text) == TRUE
\* inference.ts:183: JSON.parse succeeds on the text
ParsesAsJson(text) == text \in {"{}"}

ToolCall(id, name, arguments) ==
    [id |-> id, name |-> name, arguments |-> arguments]

\* Answers without tool calls: tool_calls is absent, or an empty array.
PlainAnswers(i) ==
    { Answer(c, FALSE, <<>>) : c \in {Null, "", AnswerText(i)} }
        \cup { Answer(AnswerText(i), TRUE, <<>>) }

\* Departures of a tool-calling answer from the routine one.
AnswerCost(a) ==
    (IF a.content = Null THEN 0 ELSE 1)
        + (Len(a.tool_calls) - 1)
        + Cardinality({k \in 1..Len(a.tool_calls) : a.tool_calls[k].name # "a"})
        + Cardinality({k \in 1..Len(a.tool_calls) :
                        a.tool_calls[k].arguments # "{}"})

ToolCallLists(i, n) ==
    { [k \in 1..n |-> ToolCall(CallId(i, k), names[k], args[k])] :
        names \in [1..n -> CalledNames], args \in [1..n -> ArgTexts] }

\* The routine answer: one valid call of tool "a" and no text.
RoutineAnswer(i) == Answer(Null, TRUE, <<ToolCall(CallId(i, 1), "a", "{}")>>)

Min(a, b) == IF a < b THEN a ELSE b

\* The tool-calling answers within the budget of departures.
ToolAnswers(i, budget) ==
    IF budget <= 0 THEN {RoutineAnswer(i)}
    ELSE { a \in { Answer(c, TRUE, calls) :
                     c \in {Null, AnswerText(i)},
                     calls \in UNION { ToolCallLists(i, n) :
                                         n \in 1..Min(MaxToolCalls, budget + 1) } } :
             AnswerCost(a) <= budget }

(***************************************************************************)
(* The results of the tools.                                               *)
(***************************************************************************)
Block(type, text) == [type |-> type, text |-> text]

\* result.content: an array of blocks, a string, another JSON value
\* (given by its serialization), or absent.
Content(kind, blocks, text) == [kind |-> kind, blocks |-> blocks, text |-> text]

RoutineContent == Content("array", <<Block("text", "ok")>>, "")

OtherContents ==
    { Content("array", <<Block("text", "x"), Block("image", ""),
                         Block("text", ""), Block("text", "y")>>, ""),
      Content("absent", <<>>, "") }

RECURSIVE FilterText(_)
\* inference.ts:193-194
FilterText(blocks) ==
    IF blocks = <<>> THEN <<>>
    ELSE (IF Head(blocks).type = "text" /\ ~Falsy(Head(blocks).text)
          THEN <<Head(blocks).text>> ELSE <<>>) \o FilterText(Tail(blocks))

RECURSIVE Join(_, _)
\* Array.prototype.join
Join(texts, sep) ==
    IF texts = <<>> THEN ""
    ELSE IF Len(texts) = 1 THEN texts[1]
    ELSE texts[1] \o sep \o Join(Tail(texts), sep)

\* JSON.stringify of a value that is neither an array nor a string
Stringify(content) ==
    IF content.kind = "absent" THEN Undefined ELSE content.text

\* inference.ts:190-200
ContentText(content) ==
    IF content.kind = "array" THEN Join(FilterText(content.blocks), "\n")
    ELSE IF content.kind = "string" THEN content.text
    ELSE Stringify(content)

\* String(toolError) of the error a failed invocation throws
ToolErrors == {"Error: boom"}

\* String(e) of the SyntaxError JSON.parse throws
ParseErrorText == "SyntaxError: Unexpected token"

(***************************************************************************)
(* The normalizer taken alone, with the text of what it receives.          *)
(***************************************************************************)
\* inference.ts:273: response.slice(0, 400)
StringPreviewLength == 400
\* inference.ts:281: JSON.stringify(response)?.slice(0, 800)
ShapePreviewLength == 800

\* Characters a payload may have less or more than a preview length.
MaxBeyond == 2

\* A text is a sequence of characters.  Character 0 is white space; the
\* other characters of a payload are numbered, so that the place a character
\* of a preview comes from can be told.
Text(pad, n) == [i \in 1..(pad + n) |-> IF i <= pad THEN 0 ELSE i - pad]

\* Faulty variant of Slice: the whole text
SliceAll(text, n) == text
\* String.prototype.slice(0, n)
Slice(text, n) == SubSeq(text, 1, Min(n, Len(text)))

\* A JavaScript value the transport can hand over (or the JSON text of which
\* it can hand over): its kind, whether it has a `choices` field, the
\* response it is when it has one, and the text JSON.stringify gives for it.
Value(kind, hasChoices, response, json) ==
    [kind |-> kind, has_choices |-> hasChoices, response |-> response,
     json |-> json]

UndefinedValue == Value("undefined", FALSE, Response(<<>>), <<>>)

\* JSON.stringify(value): undefined for undefined
JsonStringify(value) ==
    [defined |-> value.kind # "undefined", text |-> value.json]

\* JSON.stringify(JSON.parse(text)) of compact JSON text: the white space
\* around it is gone
Compact(text) == SelectSeq(text, LAMBDA c : c # 0)

\* inference.ts:271: JSON.parse of the JSON text `chars` of a value like v
JsonParse(chars, v) == [v EXCEPT !.json = Compact(chars)]

\* What create() resolved to: a string (its characters, whether they parse,
\* and the value they parse to) or a value.
StringTransport(chars, jsonValid, parsed) ==
    [is_string |-> TRUE, chars |-> chars, json_valid |-> jsonValid,
     value |-> parsed]
ValueTransport(value) ==
    [is_string |-> FALSE, chars |-> <<>>, json_valid |-> TRUE, value |-> value]

NoTransport == ValueTransport(UndefinedValue)

\* typeof x === 'object' of a value that is not null
IsObject(value) == value.kind \in {"object", "array"}

\* The transport value as the normalizer's tests see it.
RawOf(tv) ==
    Raw(tv.is_string, tv.json_valid, IsObject(tv.value), tv.value.has_choices,
        tv.value.response)

NoPreview == [defined |-> FALSE, text |-> <<>>]

NotNormalized ==
    [state |-> "pending", error |-> NoError, detail |-> NoError,
     preview |-> NoPreview, response |-> Response(<<>>)]

\* (e as Error).message of the SyntaxError of JSON.parse: the engine's text
ParseErrorMessage == "Unexpected token"

\* inference.ts:263-291 with the message of the error: the parser's message
\* (:275) and the preview (:273, :281)
Normalize(tv) ==
    LET got == chatCompletion(RawOf(tv))
    IN  IF got.ok
        THEN [state |-> "returned", error |-> NoError, detail |-> NoError,
              preview |-> NoPreview, response |-> got.response]
        ELSE IF got.error = "not valid JSON"
        THEN [state |-> "thrown", error |-> got.error,
              detail |-> ParseErrorMessage,
              preview |-> [defined |-> TRUE,
                           text |-> Slice(tv.chars, StringPreviewLength)],
              response |-> got.response]
        ELSE [state |-> "thrown", error |-> got.error, detail |-> NoError,
              preview |->
                  [defined |-> JsonStringify(tv.value).defined,
                   text |-> IF JsonStringify(tv.value).defined
                            THEN Slice(JsonStringify(tv.value).text,
                                       ShapePreviewLength)
                            ELSE <<>>],
              response |-> got.response]

\* The lengths of the payloads: short ones and ones around the two preview
\* lengths.
PayloadLengths ==
    {0, 1} \cup { b + d : b \in {StringPreviewLength, ShapePreviewLength},
                          d \in (0 - MaxBeyond)..MaxBeyond }

\* Well-formed responses.
GoodResponses ==
    { Response(<<>>), Response(<<Answer("hi", FALSE, <<>>)>>) }

\* Values: objects with and without `choices`, arrays, a number, null,
\* undefined.
Values ==
    { Value("object", FALSE, Response(<<>>), Text(0, n)) : n \in PayloadLengths \ {0, 1} }
    \cup { Value("array", FALSE, Response(<<>>), Text(0, n)) : n \in PayloadLengths \ {0, 1} }
    \cup { Value("object", TRUE, r, Text(0, n)) :
             r \in GoodResponses, n \in PayloadLengths \ {0, 1} }
    \cup { Value("number", FALSE, Response(<<>>), Text(0, 1)),
           Value("null", FALSE, Response(<<>>), Text(0, 4)) }

\* What create() can resolve to: a value, undefined, the JSON text of a
\* value with or without white space in front, a string that is not JSON.
TransportValues ==
    { ValueTransport(v) : v \in Values \cup {UndefinedValue} }
    \cup { StringTransport(Text(pad, Len(v.json)), TRUE,
                            JsonParse(Text(pad, Len(v.json)), v)) :
             pad \in {0, 1}, v \in Values }
    \cup { StringTransport(Text(0, n), FALSE, UndefinedValue) :
             n \in PayloadLengths }

(***************************************************************************)
(* Server factories (mcp-factories/*.ts) and the server registry           *)
(* (mcp-factories/server-factory.ts).                                      *)
(***************************************************************************)
\* Factories one registry may hold.
MaxFactories == 3
\* Calls of createConfigsWithAvailability / createConfigs on one registry.
MaxCalls == 2
\* Largest priority a factory of the caller's puts in its descriptor.
MaxPriority == 1

\* The credential fields the built-in factories read.
Fields == {"token", "apiKey", "appKey", "clientId", "clientSecret", "tenantId"}

\* A credential bag: each field is absent, the empty text or a text.
FieldValues == {Undefined, "", "v"}
Bags == [Fields -> FieldValues]

\* `{}`
EmptyBag == [f \in Fields |-> Undefined]
\* a bag holding a text for each field of `present`
Bag(present) == [f \in Fields |-> IF f \in present THEN "v" ELSE Undefined]

Factory(class, id, name, type, priority) ==
    [class |-> class, id |-> id, name |-> name, type |-> type,
     priority |-> priority]

GitHubMCPFactory ==
    Factory("GitHubMCPFactory", "github", "GitHub MCP", "http", 1)
SentryMCPFactory ==
    Factory("SentryMCPFactory", "sentry", "Sentry MCP", "stdio", 2)
DatadogMCPFactory ==
    Factory("DatadogMCPFactory", "datadog", "Datadog MCP", "http", 3)
AzureMCPFactory ==
    Factory("AzureMCPFactory", "azure", "Azure MCP", "stdio", 4)
BuiltInFactories ==
    {GitHubMCPFactory, SentryMCPFactory, DatadogMCPFactory, AzureMCPFactory}

\* The factory of the registry's tests: every bag is valid, the build throws.
MockFactory == Factory("mockFactory", "failing-server", "Failing Server", "http", 1)
\* A factory of the caller's that needs no credentials and builds a
\* descriptor of the given priority.
LocalFactory(priority) ==
    Factory("LocalFactory", "local", "Local MCP", "stdio", priority)
Priorities == 0..MaxPriority
AllFactories ==
    BuiltInFactories \cup {MockFactory}
        \cup {LocalFactory(p) : p \in Priorities}

\* the descriptor a factory returns
ServerConfig(factory) ==
    [id |-> factory.id, name |-> factory.name, type |-> factory.type,
     priority |-> factory.priority]
NoConfig == [id |-> "", name |-> "", type |-> "", priority |-> 0]

\* Faulty variant of validateCredentials: only the first field is looked at
validateCredentialsFirstOnly(factory, credentials, requiredFields) ==
    IF Falsy(credentials[requiredFields[1]])
    THEN factory.name \o " requires " \o requiredFields[1]
    ELSE NoError
\* validateCredentials: the message of the error thrown for the first
\* required field that is falsy, NoError when the loop ends without a throw
validateCredentials(factory, credentials, requiredFields) ==
    LET missing == {i \in 1..Len(requiredFields) :
                       Falsy(credentials[requiredFields[i]])}
        first == CHOOSE i \in missing : \A j \in missing : i <= j
    IN IF missing = {} THEN NoError
       ELSE factory.name \o " requires " \o requiredFields[first]

isCredentialsValid(factory, credentials) ==
    CASE factory.class \in {"GitHubMCPFactory", "SentryMCPFactory"} ->
            ~Falsy(credentials.token)
      [] factory.class = "DatadogMCPFactory" ->
            ~Falsy(credentials.apiKey) /\ ~Falsy(credentials.appKey)
      [] factory.class = "AzureMCPFactory" ->
            /\ ~Falsy(credentials.clientId)
            /\ ~Falsy(credentials.clientSecret)
            /\ ~Falsy(credentials.tenantId)
      [] OTHER -> TRUE

AzureRequires == "Azure MCP requires clientId, clientSecret, and tenantId"
MockFailure == "Configuration creation failed"

\* createServerConfig: the descriptor returned, or the message of the
\* error thrown
createServerConfig(factory, credentials) ==
    LET built == [error |-> NoError, config |-> ServerConfig(factory)]
        thrown(e) == [error |-> e, config |-> NoConfig]
        checked(requiredFields) ==
            LET e == validateCredentials(factory, credentials, requiredFields)
            IN IF e = NoError THEN built ELSE thrown(e)
    IN CASE factory.class \in {"GitHubMCPFactory", "SentryMCPFactory"} ->
                checked(<<"token">>)
         [] factory.class = "DatadogMCPFactory" ->
                checked(<<"apiKey", "appKey">>)
         [] factory.class = "AzureMCPFactory" ->
                IF ~isCredentialsValid(factory, credentials)
                THEN thrown(AzureRequires)
                ELSE built
         [] factory.class = "mockFactory" -> thrown(MockFailure)
         [] OTHER -> built

\* register: Map.set keeps the position of a key that is already present
register(registry, factory) ==
    IF \E i \in 1..Len(registry) : registry[i].id = factory.id
    THEN [i \in 1..Len(registry) |->
             IF registry[i].id = factory.id THEN factory ELSE registry[i]]
    ELSE Append(registry, factory)

Availability(factory, status, reason, config) ==
    [serverId |-> factory.id, serverName |-> factory.name, status |-> status,
     reason |-> reason, config |-> config]

\* Faulty variant of Lookup: the empty bag tried for a factory without one
\* is stored in the caller's Map
LookupStores(factory, map) ==
    LET given == factory.id \in DOMAIN map
    IN [given |-> given,
        credentials |-> IF given THEN map[factory.id] ELSE EmptyBag,
        map |-> IF given THEN map
                ELSE [id \in DOMAIN map \cup {factory.id} |->
                         IF id = factory.id THEN EmptyBag ELSE map[id]]]
\* `credentialsMap.get(serverId)` and, for a factory without a bag, the
\* local `credentials = {}`; the caller's Map is read, never written
Lookup(factory, map) ==
    LET given == factory.id \in DOMAIN map
    IN [given |-> given,
        credentials |-> IF given THEN map[factory.id] ELSE EmptyBag,
        map |-> map]

\* Faulty variant of Caught: the error of the build leaves the method
Uncaught(factory, e) == Availability(factory, "thrown", e, NoConfig)
\* the catch block of the build
Caught(factory, e) ==
    Availability(factory, "connection-failed",
                 "Failed to create config: Error: " \o e, NoConfig)

\* One pass of the for-of loop over the factories.  (lastChecked, the time
\* of the pass, is left out.)
ProcessFactory(factory, map) ==
    LET found == Lookup(factory, map)
        made == createServerConfig(factory, found.credentials)
        entry ==
            IF ~found.given /\ ~isCredentialsValid(factory, EmptyBag)
            THEN Availability(factory, "credentials-missing",
                     "No credentials provided for " \o factory.name, NoConfig)
            ELSE IF ~isCredentialsValid(factory, found.credentials)
            THEN Availability(factory, "invalid-credentials",
                     "Invalid credentials for " \o factory.name, NoConfig)
            ELSE IF made.error = NoError
            THEN Availability(factory, "available", "", made.config)
            ELSE Caught(factory, made.error)
    IN [entry |-> entry, map |-> found.map]

\* `results.push(entry)` seen from the front: the entry of one pass before
\* the entries of the passes after it
Prepend(entry, rest) ==
    [entries |-> <<entry>> \o rest.entries, map |-> rest.map]

\* Faulty variant of Collect: a factory without credentials is skipped
RECURSIVE CollectSkipping(_, _, _)
AfterSkipping(registry, i, pass) ==
    IF pass.entry.status = "thrown"
    THEN [entries |-> <<pass.entry>>, map |-> pass.map]
    ELSE IF pass.entry.status = "credentials-missing"
    THEN CollectSkipping(registry, pass.map, i + 1)
    ELSE Prepend(pass.entry, CollectSkipping(registry, pass.map, i + 1))
CollectSkipping(registry, map, i) ==
    IF i > Len(registry) THEN [entries |-> <<>>, map |-> map]
    ELSE AfterSkipping(registry, i, ProcessFactory(registry[i], map))
\* The for-of loop: one entry per factory, in the order of the Map; an
\* error that is not caught leaves the loop
RECURSIVE Collect(_, _, _)
\* what follows pass i: the loop goes on unless the pass threw
After(registry, i, pass) ==
    IF pass.entry.status = "thrown"
    THEN [entries |-> <<pass.entry>>, map |-> pass.map]
    ELSE Prepend(pass.entry, Collect(registry, pass.map, i + 1))
Collect(registry, map, i) ==
    IF i > Len(registry) THEN [entries |-> <<>>, map |-> map]
    ELSE After(registry, i, ProcessFactory(registry[i], map))

\* the priority of a descriptor without one
DefaultPriority == 999
\* `a.priority || 999`: 0 is falsy
SortKey(config) ==
    IF config.priority = 0 THEN DefaultPriority ELSE config.priority

\* Array.prototype.sort with the comparator of the keys' difference: the
\* sort is stable
RECURSIVE Insert(_, _)
Insert(sorted, config) ==
    IF sorted = <<>> THEN <<config>>
    ELSE LET last == sorted[Len(sorted)]
             front == SubSeq(sorted, 1, Len(sorted) - 1)
         IN IF SortKey(last) - SortKey(config) <= 0
            THEN Append(sorted, config)
            ELSE Append(Insert(front, config), last)
RECURSIVE SortFrom(_, _, _)
SortFrom(configs, i, sorted) ==
    IF i > Len(configs) THEN sorted
    ELSE SortFrom(configs, i + 1, Insert(sorted, configs[i]))
Sort(configs) == SortFrom(configs, 1, <<>>)

IsAvailable(entry) == entry.status = "available"
IsUnavailable(entry) == entry.status # "available"
Configs(entries) == [i \in 1..Len(entries) |-> entries[i].config]

\* what the method returns after the loop: the sorted descriptors, the
\* entries that are not available and the summary; or the error of the loop
Report(registry, walk, available, unavailable) ==
    IF \E i \in 1..Len(walk.entries) : walk.entries[i].status = "thrown"
    THEN [error |-> walk.entries[Len(walk.entries)].reason,
          available |-> <<>>, unavailable |-> <<>>,
          summary |-> [total |-> 0, available |-> 0, unavailable |-> 0],
          map |-> walk.map]
    ELSE [error |-> NoError,
          available |-> available, unavailable |-> unavailable,
          summary |-> [total |-> Len(registry),
                       available |-> Len(available),
                       unavailable |-> Len(unavailable)],
          map |-> walk.map]
\* the two filters over the entries of the loop, and the sort
Split(registry, walk) ==
    Report(registry, walk,
           Sort(Configs(SelectSeq(walk.entries, IsAvailable))),
           SelectSeq(walk.entries, IsUnavailable))

createConfigsWithAvailability(registry, map) ==
    Split(registry, Collect(registry, map, 1))

\* createConfigs: the available descriptors of the report
createConfigs(registry, map) ==
    LET report == createConfigsWithAvailability(registry, map)
    IN [field \in {"error", "available", "map"} |-> report[field]]

\* Faulty variant of hasMinimumServers: strictly more than the minimum
hasMoreThanMinimumServers(report, args) ==
    LET minRequired == IF Len(args) = 0 THEN 1 ELSE args[1]
    IN Len(report.available) > minRequired
\* hasMinimumServers(result, minRequired = 1); args is the list of the
\* arguments given after the report
hasMinimumServers(report, args) ==
    LET minRequired == IF Len(args) = 0 THEN 1 ELSE args[1]
    IN Len(report.available) >= minRequired

\* The credential maps of the registry's tests, and two more.
AllCredentials ==
    ("github" :> Bag({"token"})) @@ ("sentry" :> Bag({"token"}))
        @@ ("datadog" :> Bag({"apiKey", "appKey"}))
        @@ ("azure" :> Bag({"clientId", "clientSecret", "tenantId"}))
        @@ ("failing-server" :> Bag({"token"})) @@ ("local" :> EmptyBag)
GitHubOnly == ("github" :> Bag({"token"}))
InvalidCredentials ==
    ("github" :> Bag({"token"})) @@ ("sentry" :> EmptyBag)
        @@ ("datadog" :> Bag({"apiKey"})) @@ ("azure" :> EmptyBag)
NoCredentials == [id \in {} |-> EmptyBag]
EmptyTexts ==
    ("github" :> [EmptyBag EXCEPT !.token = ""]) @@ ("sentry" :> Bag({"token"}))
        @@ ("datadog" :> [Bag({"apiKey"}) EXCEPT !.appKey = ""])
        @@ ("azure" :> Bag({"clientId", "clientSecret"}))
        @@ ("local" :> Bag({"token"})) @@ ("nonexistent" :> Bag({"token"}))
CredentialMaps ==
    {AllCredentials, GitHubOnly, InvalidCredentials, NoCredentials, EmptyTexts}

\* Neither method of the factory has been called.
NoVerdict ==
    [validity |-> "unasked",
     build |-> [state |-> "unasked", error |-> NoError, config |-> NoConfig]]
FactoryIdle ==
    /\ subject = GitHubMCPFactory
    /\ handed = EmptyBag
    /\ verdict = NoVerdict

NotAsked == [report |-> 0, args |-> <<>>, value |-> FALSE]
RegistryIdle ==
    /\ factories = <<>>
    /\ credentialsMap = NoCredentials
    /\ reports = <<>>
    /\ enough = NotAsked

(***************************************************************************)
(* connectToMCPServer (mcp.ts) and connectToMCPServerWithFiltering.        *)
(***************************************************************************)
\* Tools one server lists.
MaxListed == 2

\* The descriptor handed to the connect functions.
Descriptor(type, url, command, hasArgs) ==
    [id |-> "server", name |-> "Server", type |-> type, url |-> url,
     command |-> command, hasArgs |-> hasArgs]
Urls == {Undefined, "", "not a url", "https://host/mcp"}
Commands == {Undefined, "npx"}
Descriptors ==
    {Descriptor(type, url, command, hasArgs) :
        type \in {"http", "stdio", "sse"}, url \in Urls,
        command \in Commands, hasArgs \in BOOLEAN}

\* `new URL(text)` throws for a text that is not a URL
ParsesAsUrl(text) == IsPrefix("https://", text)

\* The try block up to the transport: the transport built, or the message
\* of the error thrown and the step that threw it.
NewTransport(descriptor) ==
    LET thrown(step, e) == [error |-> e, step |-> step, transport |-> ""]
    IN IF descriptor.type = "http"
       THEN IF Falsy(descriptor.url)
            THEN thrown("descriptor",
                        "HTTP server " \o descriptor.name \o " requires URL")
            ELSE IF ~ParsesAsUrl(descriptor.url)
            THEN thrown("transport", "Invalid URL")
            ELSE [error |-> NoError, step |-> "",
                  transport |-> "StreamableHTTPClientTransport"]
       ELSE IF descriptor.type = "stdio"
       THEN IF Falsy(descriptor.command) \/ ~descriptor.hasArgs
            THEN thrown("descriptor",
                        "Stdio server " \o descriptor.name
                            \o " requires command and args")
            ELSE [error |-> NoError, step |-> "",
                  transport |-> "StdioClientTransport"]
       ELSE thrown("descriptor",
                   "Unsupported transport type: " \o descriptor.type)

\* `new Client({name, version, transport})`
Client(built) ==
    [name |-> "ai-inference-action", transport |-> built]
NoClient == [name |-> "", transport |-> ""]

\* A tool as the server lists it, and what listTools resolves to.
RemoteTool(name) ==
    [name |-> name, description |-> "about " \o name,
     inputSchema |-> "schema of " \o name]
RemoteNames == {"a", "b", "c"}
ToolsResponse(hasTools, names) ==
    [hasTools |-> hasTools,
     tools |-> [k \in 1..Len(names) |-> RemoteTool(names[k])]]
NoToolsResponse == ToolsResponse(FALSE, <<>>)
ToolsResponses ==
    {NoToolsResponse}
        \cup {ToolsResponse(TRUE, names) :
                 names \in UNION {[1..n -> RemoteNames] : n \in 0..MaxListed}}

\* The allow-lists the filtering variant is called with.
AllowLists == {<<>>, <<"a">>, <<"b", "a">>, <<"x">>, <<"a", "b", "c">>}

\* the tool definition a listed tool is mapped to
MapTool(t) ==
    [type |-> "function",
     function |-> [name |-> t.name, description |-> t.description,
                   parameters |-> t.inputSchema]]

\* Faulty variant of FilterTools: every listed tool is kept
FilterNothing(tools, allowedTools) == tools
\* `.filter(t => allowedTools.includes(t.name))`
FilterTools(tools, allowedTools) ==
    LET allowed(t) ==
            \E i \in 1..Len(allowedTools) : allowedTools[i] = t.name
    IN SelectSeq(tools, allowed)

\* the tools of the handle: `toolsResponse.tools || []`, filtered by the
\* filtering variant, mapped
MappedTools(method, response, allowedTools) ==
    LET tools == IF response.hasTools THEN response.tools ELSE <<>>
        kept == IF method = "connectToMCPServerWithFiltering"
                THEN FilterTools(tools, allowedTools)
                ELSE tools
    IN [k \in 1..Len(kept) |-> MapTool(kept[k])]

ServerClient(descriptor, client, tools) ==
    [config |-> descriptor, client |-> client, tools |-> tools,
     connected |-> TRUE]
NoServerClient ==
    [config |-> Descriptor("", Undefined, Undefined, FALSE),
     client |-> NoClient, tools |-> <<>>, connected |-> FALSE]

\* What the promise of a connect function settles to.
Unsettled ==
    [state |-> "pending", null |-> FALSE, handle |-> NoServerClient,
     error |-> NoError]
Resolved(handle) ==
    [state |-> "resolved", null |-> FALSE, handle |-> handle,
     error |-> NoError]
\* Faulty variant of CatchConnect: the error is thrown on
CatchConnectRethrows(e) ==
    [state |-> "rejected", null |-> FALSE, handle |-> NoServerClient,
     error |-> e]
\* the catch block: a warning, and null
CatchConnect(e) ==
    [state |-> "resolved", null |-> TRUE, handle |-> NoServerClient,
     error |-> NoError]

\* One call of a connect function: where it stands, the client it made,
\* what listTools resolved to, the step that failed, and its promise.
Connection(method, stage, client, response, failedAt, outcome) ==
    [method |-> method, stage |-> stage, client |-> client,
     response |-> response, failedAt |-> failedAt, outcome |-> outcome]
ConnectMethods == {"connectToMCPServer", "connectToMCPServerWithFiltering"}
Called(method) ==
    Connection(method, "called", NoClient, NoToolsResponse, "", Unsettled)
ConnectIdle ==
    /\ target = Descriptor("", Undefined, Undefined, FALSE)
    /\ allowList = <<>>
    /\ connection = Called("connectToMCPServer")

(***************************************************************************)
(* run(), the action (main.ts).                                            *)
(***************************************************************************)
\* Servers the configuration file holds.
MaxServers == 3

\* The `tools` of a configured server: absent, or a list of tool names.
ToolChoices ==
    {[given |-> FALSE, names |-> <<>>], [given |-> TRUE, names |-> <<>>],
     [given |-> TRUE, names |-> <<"a">>]}

\* The k-th server of the configuration file.
RunConfig(k, tools) ==
    [id |-> "server" \o ToString(k), name |-> "server" \o ToString(k),
     type |-> "stdio", priority |-> k, tools |-> tools]

\* What loadMCPConfig returns: the servers of the file, in the file's order.
ConfiguredLists ==
    UNION {{[k \in 1..n |-> RunConfig(k, choice[k])] :
               choice \in [1..n -> ToolChoices]} : n \in 0..MaxServers}

\* The inputs of one run: whether a prompt is set, the two switches, and
\* the configuration file.
ActionInputs ==
    [promptSet : BOOLEAN, enableMcp : BOOLEAN, enableGithubMcp : BOOLEAN,
     mcpConfig : ConfiguredLists]

\* `getBooleanInput('enable-mcp') || getBooleanInput('enable-github-mcp') || false`
EnableMcp(given) == given.enableMcp \/ given.enableGithubMcp \/ FALSE

\* `config.tools && config.tools.length > 0` chooses the filtering variant
ConnectMethod(config) ==
    IF config.tools.given /\ Len(config.tools.names) > 0
    THEN "connectToMCPServerWithFiltering"
    ELSE "connectToMCPServer"

\* One connection attempt as the history keeps it.
Attempt(config) ==
    [id |-> config.id, method |-> ConnectMethod(config),
     allowedTools |-> IF ConnectMethod(config) = "connectToMCPServer"
                      THEN <<>> ELSE config.tools.names,
     connected |-> "pending"]

\* What a connect function resolves to for a configured server: null, or
\* the handle of a server that lists the tools a and b.
Connected(config) ==
    [null |-> FALSE,
     handle |-> [config |-> config,
                 tools |-> MappedTools(ConnectMethod(config),
                                       ToolsResponse(TRUE, <<"a", "b">>),
                                       config.tools.names),
                 connected |-> TRUE]]
NotConnected ==
    [null |-> TRUE,
     handle |-> [config |-> RunConfig(0, [given |-> FALSE, names |-> <<>>]),
                 tools |-> <<>>, connected |-> FALSE]]
ConnectOutcomes(config) == {NotConnected, Connected(config)}

\* Faulty variant of Collected: the handle is put in front
CollectedInFront(clients, outcome) ==
    IF outcome.null THEN clients ELSE <<outcome.handle>> \o clients
\* `if (client) connectedClients.push(client)`
Collected(clients, outcome) ==
    IF outcome.null THEN clients ELSE Append(clients, outcome.handle)

\* One invocation of an inference path as the history keeps it.
Inference(path, clients) == [path |-> path, clients |-> clients]

\* Faulty variant of Dispatch: multiMcpInference whatever connected
DispatchAlwaysMulti(clients) == Inference("multiMcpInference", clients)
\* the graceful degradation after the connection loop
Dispatch(clients) ==
    IF Len(clients) = 0
    THEN Inference("simpleInference", <<>>)
    ELSE Inference("multiMcpInference", clients)

\* What the inference paths resolve to.
InferenceResponses == {Null, "", "answer"}

SetupFailure == "Neither prompt-file nor prompt was set"
InferenceFailure == "inference failed"

\* The run before its first step.
Started ==
    [stage |-> "start", loaded |-> FALSE, serverConfigs |-> <<>>,
     index |-> 0, connectedClients |-> <<>>, attempts |-> <<>>,
     inferences |-> <<>>, modelResponse |-> Null, output |-> "",
     failed |-> NoError]
RunIdle ==
    /\ inputs = [promptSet |-> FALSE, enableMcp |-> FALSE,
                 enableGithubMcp |-> FALSE, mcpConfig |-> <<>>]
    /\ running = Started

(***************************************************************************)
(* The configuration loader: src/src/mcp-config.ts.  The file is taken     *)
(* after JSON.parse, the servers of `mcpServers` in the order of           *)
(* Object.entries; headers, args and env are left out.                     *)
(***************************************************************************)
\* Servers one configuration file holds.
MaxEntries == 2

\* `tools` of a server entry or of a descriptor: absent, or a list of names
NoTools == [given |-> FALSE, names |-> <<>>]
Tools(names) == [given |-> TRUE, names |-> names]

\* One entry of `mcpServers`: an object, or null.
ConfigServer(url, command, tools) ==
    [null |-> FALSE, url |-> url, command |-> command, tools |-> tools]
NullServer ==
    [null |-> TRUE, url |-> Undefined, command |-> Undefined, tools |-> NoTools]
EntryUrls == {Undefined, "", "https://h", "${URL}"}
EntryCommands == {Undefined, "npx"}
EntryTools == {NoTools, Tools(<<>>), Tools(<<"t1", "t2">>)}
ConfigServers ==
    {ConfigServer(u, c, t) : u \in EntryUrls, c \in EntryCommands,
                             t \in EntryTools} \cup {NullServer}

\* the key of the k-th entry of `mcpServers`
ServerName(k) == "s" \o ToString(k)

\* process.env: the variable URL is set or not
Environments == {[URL |-> Undefined], [URL |-> "https://e"]}

\* The file: whether it exists, whether its text parses, and the parsed
\* value: null, or an object whose `mcpServers` is absent, null, a text
\* or an object.
ConfigFile(exists, parses, value, servers, entries, env) ==
    [exists |-> exists, parses |-> parses, value |-> value,
     mcpServers |-> servers, entries |-> entries, env |-> env]
MissingFile ==
    ConfigFile(FALSE, FALSE, "null", "undefined", <<>>, [URL |-> Undefined])
OddFiles ==
    {MissingFile,
     ConfigFile(TRUE, FALSE, "null", "undefined", <<>>, [URL |-> Undefined]),
     ConfigFile(TRUE, TRUE, "null", "undefined", <<>>, [URL |-> Undefined])}
    \cup {ConfigFile(TRUE, TRUE, "object", servers, <<>>, [URL |-> Undefined]) :
             servers \in {"undefined", "null", "string"}}
ServerFiles ==
    UNION {{ConfigFile(TRUE, TRUE, "object", "object", entries, env) :
               entries \in [1..n -> ConfigServers], env \in Environments} :
           n \in 0..MaxEntries}
ConfigFiles == OddFiles \cup ServerFiles

\* substituteEnvVars: a placeholder of a variable that is set and not
\* empty is replaced, anything else is kept
substituteEnvVars(value, env) ==
    IF value = "${URL}" /\ ~Falsy(env.URL) THEN env.URL ELSE value

TypeError == "TypeError: Cannot read properties of null"

\* the body of the loop of processConfigWithEnvVars: url and command are
\* copied when they are truthy, and `tools` is not copied
ProcessServer(serverConfig, env) ==
    [null |-> FALSE,
     url |-> IF Falsy(serverConfig.url) THEN Undefined
             ELSE substituteEnvVars(serverConfig.url, env),
     command |-> IF Falsy(serverConfig.command) THEN Undefined
                 ELSE substituteEnvVars(serverConfig.command, env),
     tools |-> NoTools]

\* processConfigWithEnvVars: the processed servers, or the error thrown at
\* an entry that is null
processConfigWithEnvVars(servers, env) ==
    IF \E k \in 1..Len(servers) : servers[k].null
    THEN [error |-> TypeError, servers |-> <<>>]
    ELSE [error |-> NoError,
          servers |-> [k \in 1..Len(servers) |->
                          ProcessServer(servers[k], env)]]

\* The descriptor of a server; no `tools` is ever assigned to it.
MCPServerConfig(serverName, type, priority, url, command) ==
    [id |-> serverName, name |-> serverName, type |-> type,
     priority |-> priority, url |-> url, command |-> command,
     tools |-> NoTools]
NoDescriptor == MCPServerConfig("", "none", 0, Undefined, Undefined)

MissingFields(serverName) ==
    "Server " \o serverName
        \o " must have either 'url' (for HTTP) or 'command' (for stdio)"

\* parseMCPServerConfig: the descriptor returned, or the message of the
\* error thrown
parseMCPServerConfig(serverName, config, priority) ==
    IF ~Falsy(config.url)
    THEN [error |-> NoError,
          config |-> MCPServerConfig(serverName, "http", priority,
                                     config.url, Undefined)]
    ELSE IF ~Falsy(config.command)
    THEN [error |-> NoError,
          config |-> MCPServerConfig(serverName, "stdio", priority,
                                     Undefined, config.command)]
    ELSE [error |-> MissingFields(serverName), config |-> NoDescriptor]

RECURSIVE ParseFrom(_, _, _)
\* Faulty variant of Parsed: an entry that is skipped takes a priority
ParsedConsuming(servers, k, priority, made) ==
    IF made.error = NoError
    THEN <<made.config>> \o ParseFrom(servers, k + 1, priority + 1)
    ELSE ParseFrom(servers, k + 1, priority + 1)
\* the try of the loop over the servers: push and `priority++`, or the
\* warning of the catch
Parsed(servers, k, priority, made) ==
    IF made.error = NoError
    THEN <<made.config>> \o ParseFrom(servers, k + 1, priority + 1)
    ELSE ParseFrom(servers, k + 1, priority)
\* the loop over the entries of the processed servers, from the k-th on
ParseFrom(servers, k, priority) ==
    IF k > Len(servers) THEN <<>>
    ELSE Parsed(servers, k, priority,
                parseMCPServerConfig(ServerName(k), servers[k], priority))

\* `return []`
NothingLoaded == [error |-> NoError, configs |-> <<>>]
\* the outer catch: a warning, and the empty list
CaughtLoad(e) == NothingLoaded
\* the servers after the substitution, or the catch of its error
LoadProcessed(processed) ==
    IF processed.error # NoError THEN CaughtLoad(processed.error)
    ELSE [error |-> NoError, configs |-> ParseFrom(processed.servers, 1, 1)]

\* loadMCPConfig: what it returns, and the error it throws
loadMCPConfig(file) ==
    IF ~file.exists THEN NothingLoaded
    ELSE IF ~file.parses THEN CaughtLoad("SyntaxError")
    ELSE IF file.value = "null" THEN CaughtLoad(TypeError)
    ELSE IF file.mcpServers # "object" THEN NothingLoaded
    ELSE LoadProcessed(processConfigWithEnvVars(file.entries, file.env))

\* A function of the loader that was not called.
NotCalled == [called |-> FALSE, returned |-> NothingLoaded]
\* What a call returned or threw.
CallOutcome(returned) == [called |-> TRUE, returned |-> returned]

\* No configuration is being loaded.
LoaderIdle ==
    /\ configFile = MissingFile
    /\ loadResult = [loadMCPConfig |-> NotCalled,
                     processConfigWithEnvVars |-> NotCalled]

(***************************************************************************)
(* Init: the call multiMcpInference(request, mcpClients) is entered.       *)
(***************************************************************************)
Init ==
    /\ request \in Requests
    /\ mcpClients \in ClientLists
    /\ pc = "entry"
    /\ messages = <<>>
    /\ iterationCount = 0
    /\ finalMessage = FALSE
    /\ chatRequest = NoRequest
    /\ modelResponse = Undefined
    /\ toolCalls = <<>>
    /\ toolIdx = 0
    /\ toolResults = <<>>
    /\ result = NoResult
    /\ error = NoError
    /\ completionCalls = 0
    /\ invoked = <<>>
    /\ finalSetAt = 0
    /\ deviations = 0
    /\ transport = NoTransport
    /\ normalized = NotNormalized
    /\ RegistryIdle
    /\ FactoryIdle
    /\ ConnectIdle
    /\ RunIdle
    /\ LoaderIdle

Budget == MaxDeviations - deviations

(***************************************************************************)
(* multiMcpInference, inference.ts:65-106                                  *)
(***************************************************************************)
\* inference.ts:71-74
EnterDelegates ==
    /\ pc = "entry"
    /\ Len(mcpClients) = 0
    /\ pc' = "simple"
    /\ UNCHANGED <<request, mcpClients, messages, iterationCount, finalMessage,
                   chatRequest, modelResponse, toolCalls, toolIdx, toolResults,
                   result, error, completionCalls, invoked, finalSetAt,
                   deviations>>
    /\ UNCHANGED <<normVars, setupVars>>

\* inference.ts:76-106
EnterLoop ==
    /\ pc = "entry"
    /\ Len(mcpClients) # 0
    /\ messages' = request.messages
    /\ iterationCount' = 0
    /\ finalMessage' = FALSE
    /\ pc' = "loop"
    /\ UNCHANGED <<request, mcpClients, chatRequest, modelResponse, toolCalls,
                   toolIdx, toolResults, result, error, completionCalls,
                   invoked, finalSetAt, deviations>>
    /\ UNCHANGED <<normVars, setupVars>>

(***************************************************************************)
(* simpleInference, inference.ts:36-60                                     *)
(***************************************************************************)
\* Faulty variant of Delegated: the value of simpleInference is dropped
DelegatedLost(value) == Null
\* inference.ts:73: return simpleInference(request)
Delegated(value) == value

SimpleIssue ==
    /\ pc = "simple"
    /\ chatRequest' = BuildSimpleRequest(request.messages, request.responseFormat)
    /\ completionCalls' = completionCalls + 1
    /\ pc' = "simpleAwait"
    /\ UNCHANGED <<request, mcpClients, messages, iterationCount, finalMessage,
                   modelResponse, toolCalls, toolIdx, toolResults, result,
                   error, invoked, finalSetAt, deviations>>
    /\ UNCHANGED <<normVars, setupVars>>

\* Faulty variant of Rethrown: the catch throws an error of its own
RethrownAsOther(e) == "OpenAI API error"
\* inference.ts:286-290 and 223-226: the catch logs and throws what it caught
Rethrown(e) == e

SimpleFails ==
    /\ pc = "simpleAwait"
    /\ \E raw \in MalformedRaws :
          /\ ~chatCompletion(raw).ok
          /\ error' = Rethrown(chatCompletion(raw).error)
    /\ pc' = "thrown"
    /\ chatRequest' = NoRequest
    /\ UNCHANGED <<request, mcpClients, messages, iterationCount, finalMessage,
                   modelResponse, toolCalls, toolIdx, toolResults, result,
                   completionCalls, invoked, finalSetAt, deviations>>
    /\ UNCHANGED <<normVars, setupVars>>

SimpleAnswers ==
    /\ pc = "simpleAwait"
    /\ \E a \in PlainAnswers(completionCalls)
                  \cup {NoAnswer, RoutineAnswer(completionCalls)},
          s \in BOOLEAN :
          LET choices == IF a = NoAnswer THEN <<>> ELSE <<a>>
              got == chatCompletion(Raw(s, TRUE, TRUE, TRUE, Response(choices)))
          IN  /\ got.ok
              /\ modelResponse' = FirstChoice(got.response).content
              /\ result' = Delegated(OrNull(FirstChoice(got.response).content))
    /\ pc' = "done"
    /\ chatRequest' = NoRequest
    /\ UNCHANGED <<request, mcpClients, messages, iterationCount, finalMessage,
                   toolCalls, toolIdx, toolResults, error, completionCalls,
                   invoked, finalSetAt, deviations>>
    /\ UNCHANGED <<normVars, setupVars>>

(***************************************************************************)
(* The loop of multiMcpInference, inference.ts:108-238                     *)
(***************************************************************************)
\* inference.ts:108-132: the cap check, the increment, the request, the call
IssueCompletion ==
    /\ pc = "loop"
    /\ LoopGuard(iterationCount)
    /\ Len(messages) < MaxConversation   \* never false while the cap holds
    /\ iterationCount' = NextIteration(iterationCount)
    /\ chatRequest' = BuildRequest(messages, request.responseFormat,
                                   finalMessage, AllTools(mcpClients))
    /\ completionCalls' = completionCalls + 1
    /\ pc' = "await"
    /\ UNCHANGED <<request, mcpClients, messages, finalMessage, modelResponse,
                   toolCalls, toolIdx, toolResults, result, error, invoked,
                   finalSetAt, deviations>>
    /\ UNCHANGED <<normVars, setupVars>>

\* inference.ts:229-237
CapExit ==
    /\ pc = "loop"
    /\ ~LoopGuard(iterationCount)
    /\ result' = OrNull(LastAssistantContent(messages))
    /\ pc' = "capped"
    /\ UNCHANGED <<request, mcpClients, messages, iterationCount, finalMessage,
                   chatRequest, modelResponse, toolCalls, toolIdx, toolResults,
                   error, completionCalls, invoked, finalSetAt, deviations>>
    /\ UNCHANGED <<normVars, setupVars>>

\* inference.ts:128-132 and 223-226: chatCompletion throws, the catch rethrows
CompletionFails ==
    /\ pc = "await"
    /\ \E raw \in MalformedRaws :
          /\ ~chatCompletion(raw).ok
          /\ error' = Rethrown(Rethrown(chatCompletion(raw).error))
    /\ pc' = "thrown"
    /\ chatRequest' = NoRequest
    /\ UNCHANGED <<request, mcpClients, messages, iterationCount, finalMessage,
                   modelResponse, toolCalls, toolIdx, toolResults, result,
                   completionCalls, invoked, finalSetAt, deviations>>
    /\ UNCHANGED <<normVars, setupVars>>

\* The answers that request no tool call (inference.ts:146).
RequestsNoTool(a) == ~a.has_tool_calls \/ Len(a.tool_calls) = 0

\* The answer the normalizer hands to the loop, for every way it can arrive.
Received(a) ==
    { FirstChoice(chatCompletion(raw).response) :
        raw \in { r \in Deliveries(Response(IF a = NoAnswer THEN <<>> ELSE <<a>>)) :
                    chatCompletion(r).ok } }

\* inference.ts:134-160, no tool call and no schema pass pending: return
AnswerFinal ==
    /\ pc = "await"
    /\ ~SchemaPending(request.responseFormat, finalMessage)
    /\ \E sent \in PlainAnswers(completionCalls) \cup {NoAnswer} :
       \E a \in Received(sent) :
          /\ RequestsNoTool(a)
          /\ modelResponse' = a.content
          /\ toolCalls' = a.tool_calls
          /\ messages' = Append(messages,
                 AssistantMessage(a.content, a.has_tool_calls, a.tool_calls))
          /\ result' = OrNull(a.content)
    /\ request' = RequestAfter(request, messages')
    /\ pc' = "done"
    /\ chatRequest' = NoRequest
    /\ UNCHANGED <<mcpClients, iterationCount, finalMessage, toolIdx,
                   toolResults, error, completionCalls, invoked, finalSetAt,
                   deviations>>
    /\ UNCHANGED <<normVars, setupVars>>

\* inference.ts:134-156, no tool call and a schema pass pending: one more pass
AnswerReformat ==
    /\ pc = "await"
    /\ SchemaPending(request.responseFormat, finalMessage)
    /\ Budget > 0                        \* environment: counts as a departure
    /\ deviations' = deviations + 1
    /\ \E sent \in PlainAnswers(completionCalls) \cup {NoAnswer} :
       \E a \in Received(sent) :
          /\ RequestsNoTool(a)
          /\ modelResponse' = a.content
          /\ toolCalls' = a.tool_calls
          /\ messages' = Append(Append(messages,
                 AssistantMessage(a.content, a.has_tool_calls, a.tool_calls)),
                 ReformatMessage(request.responseFormat))
    /\ request' = RequestAfter(request, messages')
    /\ finalMessage' = TRUE
    /\ finalSetAt' = completionCalls
    /\ pc' = "loop"
    /\ chatRequest' = NoRequest
    /\ UNCHANGED <<mcpClients, iterationCount, toolIdx, toolResults, result,
                   error, completionCalls, invoked>>
    /\ UNCHANGED <<normVars, setupVars>>

\* inference.ts:134-165, the answer requests tool calls
AnswerToolCalls ==
    /\ pc = "await"
    /\ \E sent \in ToolAnswers(completionCalls, Budget) :
       \E a \in Received(sent) :
          /\ ~RequestsNoTool(a)
          /\ modelResponse' = a.content
          /\ toolCalls' = a.tool_calls
          /\ messages' = Append(messages,
                 AssistantMessage(a.content, a.has_tool_calls, a.tool_calls))
          /\ deviations' = deviations + AnswerCost(sent)
    /\ request' = RequestAfter(request, messages')
    /\ toolIdx' = 1
    /\ toolResults' = <<>>
    /\ pc' = "tools"
    /\ chatRequest' = NoRequest
    /\ UNCHANGED <<mcpClients, iterationCount, finalMessage, result, error,
                   completionCalls, invoked, finalSetAt>>
    /\ UNCHANGED <<normVars, setupVars>>

\* Faulty variant of ToolErrorCaught: the error of a tool call escapes
ToolErrorEscapes == FALSE
\* inference.ts:182 and 210: the try/catch around one tool call
ToolErrorCaught == TRUE

\* Faulty variant of TargetServer: an unknown name falls back to the first
\* handle
TargetServerFallback(name) ==
    IF ToolToServer(mcpClients)[name] = 0
    THEN 1
    ELSE ToolToServer(mcpClients)[name]
\* inference.ts:167: toolToServer.get(name); 0 is undefined
TargetServer(name) == ToolToServer(mcpClients)[name]

\* inference.ts:169-178
ToolUnroutable ==
    /\ pc = "tools"
    /\ toolIdx <= Len(toolCalls)
    /\ TargetServer(toolCalls[toolIdx].name) = 0
    /\ toolResults' = Append(toolResults,
          ToolResultMessage(toolCalls[toolIdx],
              "Error: Tool " \o toolCalls[toolIdx].name
                  \o " not available on any connected server"))
    /\ toolIdx' = toolIdx + 1
    /\ UNCHANGED <<request, mcpClients, pc, messages, iterationCount,
                   finalMessage, chatRequest, modelResponse, toolCalls, result,
                   error, completionCalls, invoked, finalSetAt, deviations>>
    /\ UNCHANGED <<normVars, setupVars>>

\* inference.ts:183 and 210-218: JSON.parse throws, the catch makes a result
ToolArgsInvalid ==
    /\ pc = "tools"
    /\ toolIdx <= Len(toolCalls)
    /\ TargetServer(toolCalls[toolIdx].name) # 0
    /\ ~ParsesAsJson(toolCalls[toolIdx].arguments)
    /\ IF ToolErrorCaught
       THEN /\ toolResults' = Append(toolResults,
                  ToolResultMessage(toolCalls[toolIdx],
                                    "Error: " \o ParseErrorText))
            /\ toolIdx' = toolIdx + 1
            /\ UNCHANGED <<pc, error>>
       ELSE /\ pc' = "thrown"
            /\ error' = ParseErrorText
            /\ UNCHANGED <<toolResults, toolIdx>>
    /\ UNCHANGED <<request, mcpClients, messages, iterationCount,
                   finalMessage, chatRequest, modelResponse, toolCalls, result,
                   completionCalls, invoked, finalSetAt, deviations>>
    /\ UNCHANGED <<normVars, setupVars>>

\* inference.ts:184-187: one callTool on the target handle; `at` is the place
\* of the call (iteration, position in the batch), `asked` the position in
\* the conversation of the assistant message that asked for it, `outcome`
\* what came back
Invocation(call, outcome) ==
    [server |-> mcpClients[TargetServer(call.name)].id, name |-> call.name,
     id |-> call.id, at |-> <<iterationCount, toolIdx>>,
     asked |-> Len(messages), outcome |-> outcome]

\* The outcome recorded for an invocation that has not come back yet.
Pending == "<outstanding>"

\* inference.ts:183-187: the arguments parse, callTool is called and awaited
ToolInvoke ==
    /\ pc = "tools"
    /\ toolIdx <= Len(toolCalls)
    /\ TargetServer(toolCalls[toolIdx].name) # 0
    /\ ParsesAsJson(toolCalls[toolIdx].arguments)
    /\ invoked' = Append(invoked, Invocation(toolCalls[toolIdx], Pending))
    /\ pc' = "toolAwait"
    /\ UNCHANGED <<request, mcpClients, messages, iterationCount,
                   finalMessage, chatRequest, modelResponse, toolCalls,
                   toolIdx, toolResults, result, error, completionCalls,
                   finalSetAt, deviations>>
    /\ UNCHANGED <<normVars, setupVars>>

\* inference.ts:184-209: callTool returns
ToolSucceeds ==
    /\ pc = "toolAwait"
    /\ \E content \in {RoutineContent} \cup
                      (IF Budget > 0 THEN OtherContents ELSE {}) :
          /\ toolResults' = Append(toolResults,
                ToolResultMessage(toolCalls[toolIdx], ContentText(content)))
          /\ deviations' = deviations + (IF content = RoutineContent THEN 0 ELSE 1)
    /\ invoked' = [invoked EXCEPT ![Len(invoked)].outcome = "returned"]
    /\ toolIdx' = toolIdx + 1
    /\ pc' = "tools"
    /\ UNCHANGED <<request, mcpClients, messages, iterationCount,
                   finalMessage, chatRequest, modelResponse, toolCalls, result,
                   error, completionCalls, finalSetAt>>
    /\ UNCHANGED <<normVars, setupVars>>

\* inference.ts:184-187 and 210-218: callTool throws, the catch makes a result
ToolFails ==
    /\ pc = "toolAwait"
    /\ Budget > 0
    /\ \E e \in ToolErrors :
          /\ IF ToolErrorCaught
             THEN /\ toolResults' = Append(toolResults,
                        ToolResultMessage(toolCalls[toolIdx], "Error: " \o e))
                  /\ toolIdx' = toolIdx + 1
                  /\ pc' = "tools"
                  /\ UNCHANGED error
             ELSE /\ pc' = "thrown"
                  /\ error' = e
                  /\ UNCHANGED <<toolResults, toolIdx>>
          /\ invoked' = [invoked EXCEPT ![Len(invoked)].outcome = e]
    /\ deviations' = deviations + 1
    /\ UNCHANGED <<request, mcpClients, messages, iterationCount,
                   finalMessage, chatRequest, modelResponse, toolCalls, result,
                   completionCalls, finalSetAt>>
    /\ UNCHANGED <<normVars, setupVars>>

\* Faulty variant of BatchDone: the loop over the tool calls stops after the
\* first one
BatchDoneAfterFirst(idx, calls) == idx > 1
\* inference.ts:166: the for-of has gone through every tool call
BatchDone(idx, calls) == idx > Len(calls)

\* inference.ts:221-222 and back to the loop condition
PushResults ==
    /\ pc = "tools"
    /\ BatchDone(toolIdx, toolCalls)
    /\ messages' = AppendToolResults(messages, toolResults)
    /\ request' = RequestAfter(request, messages')
    /\ pc' = "loop"
    /\ UNCHANGED <<mcpClients, iterationCount, finalMessage, chatRequest,
                   modelResponse, toolCalls, toolIdx, toolResults, result,
                   error, completionCalls, invoked, finalSetAt, deviations>>
    /\ UNCHANGED <<normVars, setupVars>>

Next ==
    \/ EnterDelegates
    \/ EnterLoop
    \/ SimpleIssue
    \/ SimpleFails
    \/ SimpleAnswers
    \/ IssueCompletion
    \/ CapExit
    \/ CompletionFails
    \/ AnswerFinal
    \/ AnswerReformat
    \/ AnswerToolCalls
    \/ ToolUnroutable
    \/ ToolArgsInvalid
    \/ ToolInvoke
    \/ ToolSucceeds
    \/ ToolFails
    \/ PushResults

Spec == Init /\ [][Next]_vars

\* Every awaited call returns or fails, and the function runs on.
FairSpec == Spec /\ WF_vars(Next)

\* "done": a return from inside the loop (or of simpleInference);
\* "capped": the return after the loop; "thrown": an error left the function.
Returned == pc \in {"done", "capped"}
Terminated == pc \in {"done", "capped", "thrown"}

(***************************************************************************)
(* Properties.                                                             *)
(***************************************************************************)
\* The run is one of the loop (at least one handle).
LoopRun == Len(mcpClients) > 0

InLoop == LoopRun /\ pc \notin {"entry"}

FormatRequested == request.responseFormat # NoFormat

\* Positions of the assistant messages the loop appended.
LoopAssistants ==
    { i \in (Len(Seed) + 1)..Len(messages) : messages[i].role = "assistant" }

\* Completion calls that have been answered (the others failed or are in flight).
Answered == Cardinality(LoopAssistants)

\* C1: with at least one handle at most 16 completion calls are issued; the
\* counter starts at 0 and is incremented before each call, so the i-th call
\* is iteration i, and no call is in flight beyond the cap.
C1_AtMostSixteenCalls ==
    LoopRun =>
        /\ completionCalls <= 16
        /\ completionCalls = iterationCount
        /\ (pc = "entry" => iterationCount = 0)
        /\ (pc = "await" => iterationCount \in 1..16)

C1_Witness == LoopRun /\ pc = "await" /\ completionCalls = 16

\* C2: every run reaches a return or a thrown error, whatever the model and
\* the tools answer, when every awaited call returns or fails.
C2_Terminates == <>Terminated

\* a run in which the model asked for a tool on all 16 turns has ended
C2_Witness == LoopRun /\ Terminated /\ Len(invoked) >= 16

\* Every answered call carried at least one tool call, all of them routable
\* and with arguments that parse.
EveryAnswerCallsTools ==
    \A i \in LoopAssistants :
        /\ Len(messages[i].tool_calls) > 0
        /\ \A k \in 1..Len(messages[i].tool_calls) :
              LET call == messages[i].tool_calls[k]
              IN  /\ \E h \in 1..Len(mcpClients) :
                        call.name \in Range(mcpClients[h].tools)
                  /\ call.arguments = "{}"

RECURSIVE SumCalls(_)
SumCalls(S) ==
    IF S = {} THEN 0
    ELSE LET i == CHOOSE x \in S : TRUE
         IN  Len(messages[i].tool_calls) + SumCalls(S \ {i})

\* C3: when every completion call is answered with a valid, routable tool
\* call, the run ends only by a normal return after exactly 16 completion
\* calls, with every requested tool call executed and no error thrown.
C3_AlwaysToolCallsRunsToCap ==
    (LoopRun /\ Terminated /\ Answered = completionCalls
        /\ EveryAnswerCallsTools) =>
        /\ Returned
        /\ error = NoError
        /\ completionCalls = 16
        /\ Len(invoked) = SumCalls(LoopAssistants)

\* such a run in which one tool invocation failed
C3_Witness ==
    /\ LoopRun /\ Terminated /\ Answered = completionCalls
    /\ EveryAnswerCallsTools
    /\ \E i \in 1..Len(messages) :
          messages[i].role = "tool" /\ messages[i].content = "Error: Error: boom"

\* The content of the assistant message nearest the end, "" when it is empty.
LatestAssistantIs(c) ==
    \E i \in 1..Len(messages) :
        /\ messages[i].role = "assistant"
        /\ messages[i].content = c
        /\ \A j \in (i + 1)..Len(messages) : messages[j].role # "assistant"

\* C4 as stated: the cap exit returns the content of the most recent
\* assistant message and null only when there is no assistant message.
C4_Original ==
    pc = "capped" =>
        /\ \/ LatestAssistantIs(result)
           \/ result = Null
        /\ result = Null => \A i \in 1..Len(messages) :
                                messages[i].role # "assistant"

\* C4 amended: the cap exit returns the content of the most recent assistant
\* message when that content is not empty, and null when it is empty; the
\* conversation then always holds an assistant message.
C4_CapExitResult ==
    pc = "capped" =>
        /\ completionCalls = 16
        /\ result # ""
        /\ IF result = Null THEN LatestAssistantIs("")
                            ELSE LatestAssistantIs(result)

\* the cap exit after a 16th answer that carried both a text and a tool call
C4_Witness == pc = "capped" /\ result = AnswerText(16)

RECURSIVE ToolCount(_)
\* The number of tools of the first h handles.
ToolCount(h) ==
    IF h = 0 THEN 0 ELSE Len(mcpClients[h].tools) + ToolCount(h - 1)

\* C5: a completion call of the loop carries the schema and no tools exactly
\* when a schema was requested and the final-pass flag is set, and otherwise
\* the full aggregated tool list and no schema; never both, never neither.
C5_ToolsXorSchema ==
    (LoopRun /\ pc = "await") =>
        LET carriesSchema == chatRequest.response_format # NoFormat
            carriesTools == chatRequest.has_tools
        IN  /\ carriesSchema # carriesTools
            /\ carriesSchema <=> (FormatRequested /\ finalMessage)
            /\ carriesSchema => chatRequest.response_format = request.responseFormat
            /\ carriesTools =>
                  /\ Len(chatRequest.tools) = ToolCount(Len(mcpClients))
                  /\ \A h \in 1..Len(mcpClients) :
                     \A k \in 1..Len(mcpClients[h].tools) :
                        \E t \in 1..Len(chatRequest.tools) :
                            /\ chatRequest.tools[t].name = mcpClients[h].tools[k]
                            /\ chatRequest.tools[t].serverId = mcpClients[h].id
            /\ chatRequest.messages = messages

\* a schema call is in flight
C5_Witness ==
    LoopRun /\ pc = "await" /\ chatRequest.response_format = "json_schema"

\* The first answer of the run, and the answer to the next call, carried no
\* tool call.
FirstAnswerPlain ==
    /\ Len(messages) > Len(Seed)
    /\ messages[Len(Seed) + 1].role = "assistant"
    /\ Len(messages[Len(Seed) + 1].tool_calls) = 0

SecondAnswerPlain ==
    /\ Len(messages) >= Len(Seed) + 3
    /\ messages[Len(Seed) + 3].role = "assistant"
    /\ Len(messages[Len(Seed) + 3].tool_calls) = 0

Absent(c) == c \in {Null, Undefined}

\* C6 as stated: with a response format and a first answer without tool
\* calls there are exactly 2 completion calls, and the result is the content
\* of the second one.
C6_Original ==
    (LoopRun /\ FormatRequested /\ FirstAnswerPlain) =>
        /\ completionCalls <= 2
        /\ Returned =>
              /\ completionCalls = 2
              /\ result = IF Absent(modelResponse) THEN Null ELSE modelResponse

\* C6 amended: with a response format and a first answer without tool calls
\* the reformat message follows that answer and a second completion call is
\* issued before any return; when the second answer has no tool call either,
\* the run returns there after exactly 2 completion calls, and the result is
\* the second content, or null when that content is empty or absent.
C6_ReformatPass ==
    (LoopRun /\ FormatRequested /\ FirstAnswerPlain) =>
        /\ Len(messages) >= Len(Seed) + 2
        /\ messages[Len(Seed) + 2].role = "user"
        /\ Returned => completionCalls >= 2
        /\ SecondAnswerPlain =>
              /\ pc = "done"
              /\ completionCalls = 2
              /\ Len(messages) = Len(Seed) + 3
              /\ messages[Len(Seed) + 3].content =
                    (IF Absent(modelResponse) THEN "" ELSE modelResponse)
              /\ result = IF modelResponse \in {Null, Undefined, ""}
                          THEN Null ELSE modelResponse

C6_Witness ==
    /\ LoopRun /\ FormatRequested /\ FirstAnswerPlain /\ SecondAnswerPlain
    /\ result = AnswerText(2)

\* Positions of the reformat message.
ReformatPositions ==
    { i \in (Len(Seed) + 1)..Len(messages) : messages[i].role = "user" }

\* No answer given after the reformat message carries a tool call.
NoToolCallAfterReformat ==
    \A i \in LoopAssistants :
        (\E u \in ReformatPositions : u < i) => Len(messages[i].tool_calls) = 0

\* C7, for the runs in which no answer after the reformat message carries a
\* tool call: once the final-pass flag is set, exactly one further completion
\* call is issued, it carries the schema, and the loop then terminates.
C7_OneMoreIteration ==
    (LoopRun /\ finalSetAt > 0 /\ NoToolCallAfterReformat) =>
        /\ completionCalls <= finalSetAt + 1
        /\ Terminated => completionCalls = finalSetAt + 1
        /\ pc = "await" => chatRequest.response_format = request.responseFormat

\* C8 as stated: an answer without tool calls and with no schema pass pending
\* ends the run, and the result is that content.
C8_Original ==
    (LoopRun /\ pc = "done") =>
        result = IF Absent(modelResponse) THEN Null ELSE modelResponse

\* The conversation ends with an answer of the loop that carries no tool call.
EndsWithPlainAnswer ==
    /\ Len(messages) > Len(Seed)
    /\ messages[Len(messages)].role = "assistant"
    /\ Len(messages[Len(messages)].tool_calls) = 0

\* C8 amended: an answer without tool calls and with no schema pass pending
\* ends the run at that iteration: no completion call and no tool call
\* follows, and the result is that content, or null when the content is
\* empty or absent.
C8_PlainAnswerReturns ==
    (LoopRun /\ EndsWithPlainAnswer) =>
        /\ pc = "done"
        /\ ~FormatRequested \/ finalMessage
        /\ completionCalls = iterationCount
        /\ Answered = completionCalls
        /\ ~ENABLED Next
        /\ result = IF modelResponse \in {Null, Undefined, ""}
                    THEN Null ELSE modelResponse
        /\ messages[Len(messages)].content =
              (IF Absent(modelResponse) THEN "" ELSE modelResponse)

\* an empty answer was returned as null on the final pass
C8_Witness ==
    LoopRun /\ EndsWithPlainAnswer /\ finalMessage /\ modelResponse = ""

\* The messages the loop appended, that is all after the seed.
Appended == (Len(Seed) + 1)..Len(messages)

\* A tool-result message stands in a run of results behind an assistant
\* message that carries tool calls.
BehindAssistant(i) ==
    \E p \in { q \in (i - MaxToolCalls)..(i - 1) : q > Len(Seed) } :
        /\ p < i
        /\ messages[p].role = "assistant"
        /\ Len(messages[p].tool_calls) >= i - p
        /\ \A j \in (p + 1)..i : messages[j].role = "tool"

\* One assistant message per iteration whose completion call was answered.
OneAssistantPerIteration ==
    Answered = IF pc = "await" \/ pc = "thrown"
               THEN iterationCount - 1 ELSE iterationCount

\* C9 as stated: the conversation is the seed followed, per completed
\* iteration, by one assistant message and zero or more tool results, and
\* nothing else.
C9_Original ==
    InLoop =>
        /\ IsPrefix(Seed, messages)
        /\ \A i \in Appended :
              \/ messages[i].role = "assistant"
              \/ messages[i].role = "tool" /\ BehindAssistant(i)

\* C9 amended: the conversation is the seed followed, per iteration whose
\* call was answered, by one assistant message and then zero or more tool
\* results or, once in a run and only behind an answer without tool calls,
\* the user message that asks for the requested format.
C9_ConversationShape ==
    InLoop =>
        /\ IsPrefix(Seed, messages)
        /\ Len(messages) > Len(Seed) => messages[Len(Seed) + 1].role = "assistant"
        /\ OneAssistantPerIteration
        /\ Cardinality(ReformatPositions) = (IF finalMessage THEN 1 ELSE 0)
        /\ \A i \in Appended :
              \/ messages[i].role = "assistant"
              \/ messages[i].role = "tool" /\ BehindAssistant(i)
              \/ /\ messages[i].role = "user"
                 /\ FormatRequested
                 /\ messages[i].content =
                      "Please provide your response in the exact json_schema format specified."
                 /\ messages[i - 1].role = "assistant"
                 /\ Len(messages[i - 1].tool_calls) = 0
                 /\ i - 1 \in Appended

\* a finished run with tool results and the reformat message
C9_Witness ==
    /\ InLoop /\ Terminated /\ finalMessage
    /\ \E i \in Appended : messages[i].role = "tool"
    /\ \E i \in Appended : messages[i].role = "user"

\* C10: every step leaves the previous conversation as a prefix of the new
\* one, and leaves the request's own message list as it was.
C10_AppendOnly ==
    [][/\ IsPrefix(messages, messages')
       /\ request'.messages = request.messages
       /\ request.messages = Seed]_vars

\* tool results were appended and the request still holds only the seed
C10_Witness ==
    /\ InLoop /\ Terminated
    /\ Len(messages) > Len(Seed) + 2
    /\ \E i \in Appended : messages[i].role = "tool"
    /\ request.messages = Seed

(***************************************************************************)
(* C11: the results of one iteration's tool calls                          *)
(***************************************************************************)

\* The message at position p answers the tool call `call`.
AnswersCall(m, call) ==
    /\ m.role = "tool"
    /\ m.tool_call_id = call.id
    /\ m.name = call.name

\* The assistant message at position p asked for tool calls whose results
\* are still being collected.
BatchPending(p) == pc \in {"tools", "toolAwait"} /\ p = Len(messages)

\* The k results of the assistant message at p stand right behind it, in the
\* order of its tool calls, and the message after them is not a result.
ResultsFollow(msgs, p) ==
    LET calls == msgs[p].tool_calls
        k == Len(calls)
    IN  /\ Len(msgs) >= p + k
        /\ \A i \in 1..k : AnswersCall(msgs[p + i], calls[i])
        /\ Len(msgs) > p + k => msgs[p + k + 1].role # "tool"

\* C11: for every iteration whose answer asks for k >= 1 tool calls, exactly
\* k tool-result messages stand directly behind that assistant message before
\* the next completion call is built, in the order of the requests, the i-th
\* carrying the id and the function name of the i-th call; while the batch is
\* being worked on, the results collected so far are those of the first calls.
C11_ResultsFollowRequests ==
    InLoop =>
        /\ \A p \in LoopAssistants :
              (Len(messages[p].tool_calls) >= 1 /\ ~BatchPending(p))
                  => ResultsFollow(messages, p)
        /\ pc \in {"tools", "toolAwait"} =>
              /\ Len(toolResults) = toolIdx - 1
              /\ Len(toolResults) <= Len(toolCalls)
              /\ \A i \in 1..Len(toolResults) :
                    AnswersCall(toolResults[i], toolCalls[i])
        /\ pc = "await" =>
              \A p \in 1..Len(chatRequest.messages) :
                  (chatRequest.messages[p].role = "assistant"
                   /\ Len(chatRequest.messages[p].tool_calls) >= 1)
                      => ResultsFollow(chatRequest.messages, p)

\* A batch of two tool calls has been answered and the next call is out.
C11_Witness ==
    /\ InLoop
    /\ pc = "await"
    /\ \E p \in LoopAssistants :
          /\ Len(messages[p].tool_calls) = 2
          /\ Len(messages) >= p + 2
          /\ messages[p + 2].role = "tool"

(***************************************************************************)
(* C12: a tool call no handle can serve                                    *)
(***************************************************************************)

\* The function names the handles of a list offer, for every list.
OfferedBy ==
    [clients \in ClientLists |->
        UNION { Range(clients[h].tools) : h \in 1..Len(clients) }]

\* The function names the live handles offer.
OfferedNames == OfferedBy[mcpClients]

UnroutableText(name) ==
    "Error: Tool " \o name \o " not available on any connected server"

\* The errors a completion call can end the function with.
CompletionErrors == {"not valid JSON", "no choices"}

ResultAt(p, i) ==
    IF BatchPending(p) THEN toolResults[i] ELSE messages[p + i]

\* The tool call at position i of the batch of the assistant message at p
\* has been worked on.
Handled(p, i) == BatchPending(p) => i < toolIdx

\* The errors a tool call can raise: JSON.parse of the arguments, callTool.
ToolCallErrors == ToolErrors \cup {ParseErrorText}

OwnersIn(clients, name) ==
    { h \in 1..Len(clients) : name \in Range(clients[h].tools) }

Owners(name) == OwnersIn(mcpClients, name)

\* The last of them in the list.
LastOwnerIn(clients, name) ==
    CHOOSE h \in OwnersIn(clients, name) :
        \A g \in OwnersIn(clients, name) : g <= h

\* For every handle list and every offered name, the id of the last handle
\* of the list that offers it.
LastOwnerId ==
    [clients \in ClientLists |->
        [n \in OfferedBy[clients] |-> clients[LastOwnerIn(clients, n)].id]]

InvocationsOf(id) == { j \in 1..Len(invoked) : invoked[j].id = id }

\* The tool call an invocation was made for.
CallOf(inv) == messages[inv.asked].tool_calls[inv.at[2]]

\* The tool calls worked on so far, or being invoked, that name a function of
\* `offered` and carry arguments that parse: the place of each.
InvocableCalls(offered) ==
    { c \in LoopAssistants \X (1..MaxToolCalls) :
        /\ c[2] <= Len(messages[c[1]].tool_calls)
        /\ messages[c[1]].tool_calls[c[2]].name \in offered
        /\ messages[c[1]].tool_calls[c[2]].arguments = "{}"
        /\ \/ Handled(c[1], c[2])
           \/ pc = "toolAwait" /\ c[2] = toolIdx }

\* C14 as stated: every routable tool call that has been worked on was invoked
\* on exactly one handle.  A routable call whose arguments are not JSON is
\* invoked on none.
C14_Original ==
    InLoop =>
        \A p \in LoopAssistants : \A i \in 1..Len(messages[p].tool_calls) :
            (Owners(messages[p].tool_calls[i].name) # {} /\ Handled(p, i))
                => Cardinality(InvocationsOf(messages[p].tool_calls[i].id)) = 1

\* C14: every routable tool call whose arguments parse is invoked on exactly
\* one handle, the one the routing table holds for its name: with a name
\* offered by several handles, the last handle of the list; no other handle
\* is invoked, and a routable call whose arguments do not parse is invoked on
\* no handle.  (Every invocation is made for a tool call of the conversation,
\* on the last owner of its name; no two invocations are made for the same
\* call; there are as many invocations as routable calls with arguments
\* that parse.)
C14_RoutedToLastOwner ==
    InLoop =>
        LET offered == OfferedNames
            owner == LastOwnerId[mcpClients]
        IN  /\ \A j \in 1..Len(invoked) :
                  /\ invoked[j].asked \in Appended
                  /\ messages[invoked[j].asked].role = "assistant"
                  /\ invoked[j].at[2]
                        <= Len(messages[invoked[j].asked].tool_calls)
                  /\ CallOf(invoked[j]).id = invoked[j].id
                  /\ CallOf(invoked[j]).name = invoked[j].name
                  /\ CallOf(invoked[j]).arguments = "{}"
                  /\ invoked[j].name \in offered
                  /\ invoked[j].server = owner[invoked[j].name]
            /\ \A j \in 1..(Len(invoked) - 1) :
                  \/ invoked[j].asked < invoked[j + 1].asked
                  \/ /\ invoked[j].asked = invoked[j + 1].asked
                     /\ invoked[j].at[2] < invoked[j + 1].at[2]
            /\ Len(invoked) = Cardinality(InvocableCalls(offered))

\* A tool offered by both handles was called and went to the second handle.
C14_Witness ==
    /\ InLoop
    /\ \E j \in 1..Len(invoked) :
          /\ Cardinality(Owners(invoked[j].name)) = 2
          /\ invoked[j].server = "sentry"
          /\ invoked[j].name = "s"

(***************************************************************************)
(* C15 and C16: no live handle, simpleInference                            *)
(***************************************************************************)

\* What simpleInference returns for the content it read (inference.ts:59).
SimpleValue(content) ==
    IF content \in {Null, Undefined, ""} THEN Null ELSE content

\* C15: with no live handle multiMcpInference goes straight to
\* simpleInference: no loop iteration, no tool list, no tool invocation, one
\* completion call; its value is handed back unchanged, and when it fails the
\* failure is the function's failure.
C15_DelegatesToSimple ==
    ~LoopRun =>
        /\ pc \in {"entry", "simple", "simpleAwait", "done", "thrown"}
        /\ iterationCount = 0
        /\ messages = <<>>
        /\ toolCalls = <<>>
        /\ invoked = <<>>
        /\ ~chatRequest.has_tools
        /\ completionCalls = (IF pc \in {"entry", "simple"} THEN 0 ELSE 1)
        /\ pc = "done" => result = SimpleValue(modelResponse) /\ error = NoError
        /\ pc = "thrown" => result = NoResult /\ error \in CompletionErrors

\* With no handle the answer text of the single call is the function's value.
C15_Witness ==
    /\ ~LoopRun
    /\ pc = "done"
    /\ completionCalls = 1
    /\ result = "answer 1"

\* C16: simpleInference issues exactly one completion call, built from the
\* seed messages, without a tool list, with the response format exactly when
\* the request has one; it returns the content of the first choice, or null.
C16_SimpleOneCall ==
    ~LoopRun =>
        /\ completionCalls <= 1
        /\ pc = "simpleAwait" =>
              /\ completionCalls = 1
              /\ chatRequest.messages = Seed
              /\ ~chatRequest.has_tools
              /\ chatRequest.tools = <<>>
              /\ chatRequest.response_format = request.responseFormat
              /\ (chatRequest.response_format # NoFormat) <=> FormatRequested
        /\ pc = "done" =>
              /\ completionCalls = 1
              /\ result \in {modelResponse, Null}
              /\ result = Null => modelResponse \in {Null, Undefined, ""}

\* The single call of a request with a response format is out.
C16_Witness ==
    /\ ~LoopRun
    /\ pc = "simpleAwait"
    /\ FormatRequested
    /\ chatRequest.response_format = "json_schema"
    /\ chatRequest.messages = Seed

(***************************************************************************)
(* C17: one call at a time                                                 *)
(***************************************************************************)

\* The tool invocations that have not come back.
OutstandingTools == { j \in 1..Len(invoked) : invoked[j].outcome = Pending }

\* The completion calls that have not come back: the calls issued less the
\* calls answered or failed.
OutstandingCompletions ==
    completionCalls - Answered - (IF pc = "thrown" /\ error \in CompletionErrors
                                  THEN 1 ELSE 0)

\* Place a comes before place b: an earlier iteration, or the same iteration
\* and an earlier position in the batch.
Before(a, b) == a[1] < b[1] \/ (a[1] = b[1] /\ a[2] < b[2])

\* C17: at most one completion call or tool invocation is outstanding at any
\* moment; tool calls are invoked in the order of the iterations and, within
\* one iteration, in request order, each after the one before it has come
\* back and its result has been recorded; a completion call goes out only
\* when every tool call of the iterations before it has come back and its
\* result stands in the conversation the call carries.
C17_OneAtATime ==
    InLoop =>
        /\ OutstandingCompletions + Cardinality(OutstandingTools) <= 1
        /\ OutstandingCompletions = (IF pc = "await" THEN 1 ELSE 0)
        /\ OutstandingTools = (IF pc = "toolAwait" THEN {Len(invoked)} ELSE {})
        /\ \A j \in 1..(Len(invoked) - 1) :
              Before(invoked[j].at, invoked[j + 1].at)
        /\ pc = "toolAwait" =>
              /\ invoked[Len(invoked)].at = <<iterationCount, toolIdx>>
              /\ invoked[Len(invoked)].id = toolCalls[toolIdx].id
              /\ Len(toolResults) = toolIdx - 1
        /\ pc = "await" =>
              /\ \A j \in 1..Len(invoked) : invoked[j].at[1] < iterationCount
              /\ chatRequest.messages = messages
              /\ \A p \in LoopAssistants :
                    /\ Len(messages) >= p + Len(messages[p].tool_calls)
                    /\ \A i \in 1..Len(messages[p].tool_calls) :
                          messages[p + i].tool_call_id
                              = messages[p].tool_calls[i].id

\* The second tool invocation of a batch is outstanding: the first one has
\* come back and its result is recorded.
C17_Witness ==
    /\ InLoop
    /\ pc = "toolAwait"
    /\ toolIdx = 2
    /\ Len(toolResults) = 1
    /\ Len(invoked) >= 2
    /\ invoked[Len(invoked) - 1].outcome = "returned"
    /\ invoked[Len(invoked) - 1].at = <<iterationCount, 1>>

(***************************************************************************)
(* C18: a malformed completion response                                    *)
(***************************************************************************)

\* C18: a completion response that is not (the JSON text of) an object with
\* a `choices` field fails the completion call, and the failure is the
\* failure of multiMcpInference and of simpleInference: the error is the
\* normalizer's, nothing is returned, and no completion call or tool
\* invocation follows.  A run goes on only after a call that was answered.
C18_MalformedResponseIsFatal ==
    /\ pc = "thrown" =>
          /\ error \in {"not valid JSON", "no choices"}
          /\ result = NoResult
          /\ ~ENABLED Next
          /\ OutstandingTools = {}
          /\ LoopRun => Answered = completionCalls - 1
          /\ ~LoopRun => completionCalls = 1
    /\ pc # "thrown" => error = NoError
    /\ (LoopRun /\ pc \notin {"await", "thrown"}) => Answered = completionCalls

\* The loop failed on a malformed response after a round of tool calls.
C18_Witness ==
    /\ LoopRun
    /\ pc = "thrown"
    /\ error = "no choices"
    /\ Len(invoked) >= 1
    /\ completionCalls >= 2

(***************************************************************************)
(* The normalizer taken alone: chatCompletion applied to one transport     *)
(* value.                                                                  *)
(***************************************************************************)
NormalizerInit ==
    /\ request = [messages |-> Seed, responseFormat |-> NoFormat]
    /\ mcpClients = <<>>
    /\ pc = "normalizer"
    /\ messages = <<>>
    /\ iterationCount = 0
    /\ finalMessage = FALSE
    /\ chatRequest = BuildSimpleRequest(Seed, NoFormat)
    /\ modelResponse = Undefined
    /\ toolCalls = <<>>
    /\ toolIdx = 0
    /\ toolResults = <<>>
    /\ result = NoResult
    /\ error = NoError
    /\ completionCalls = 1
    /\ invoked = <<>>
    /\ finalSetAt = 0
    /\ deviations = 0
    /\ transport \in TransportValues
    /\ normalized = NotNormalized
    /\ RegistryIdle
    /\ FactoryIdle
    /\ ConnectIdle
    /\ RunIdle
    /\ LoaderIdle

\* inference.ts:285: the response is handed to the caller
NormalizerReturns ==
    /\ pc = "normalizer"
    /\ Normalize(transport).state = "returned"
    /\ normalized' = Normalize(transport)
    /\ pc' = "normalized"
    /\ UNCHANGED <<transport, loopVars, setupVars>>

\* inference.ts:274 and 282: the error is thrown, and rethrown at :289
NormalizerThrows ==
    /\ pc = "normalizer"
    /\ Normalize(transport).state = "thrown"
    /\ normalized' = [Normalize(transport) EXCEPT
                         !.error = Rethrown(Normalize(transport).error)]
    /\ pc' = "normalized"
    /\ UNCHANGED <<transport, loopVars, setupVars>>

NormalizerNext ==
    \/ NormalizerReturns
    \/ NormalizerThrows

NormalizerSpec == NormalizerInit /\ [][NormalizerNext]_vars

(***************************************************************************)
(* C19: what the normalizer accepts                                        *)
(***************************************************************************)

\* The value the shape test looks at is an object with a `choices` field.
HasChoicesObject(tv) ==
    /\ tv.is_string => tv.json_valid
    /\ tv.value.kind = "object"
    /\ tv.value.has_choices

\* C19: the normalizer accepts what the transport gave exactly when that is,
\* after JSON-parsing it if it is a string, an object with a `choices` field,
\* and then hands over that object, or the object the string parsed to, as
\* it is; a string that is not JSON and a value without `choices` are
\* rejected with an error.
C19_AcceptsObjectsWithChoices ==
    normalized.state # "pending" =>
        /\ normalized.state = "returned" <=> HasChoicesObject(transport)
        /\ normalized.state = "thrown" <=> ~HasChoicesObject(transport)
        /\ normalized.state = "returned" =>
              /\ normalized.response = transport.value.response
              /\ normalized.error = NoError
        /\ normalized.state = "thrown" =>
              normalized.error =
                  (IF transport.is_string /\ ~transport.json_valid
                   THEN "not valid JSON" ELSE "no choices")

\* A response that came as JSON text with white space in front was accepted
\* and its first choice handed over.
C19_Witness ==
    /\ normalized.state = "returned"
    /\ transport.is_string
    /\ transport.chars[1] = 0
    /\ Len(normalized.response.choices) = 1

(***************************************************************************)
(* C20: the preview in the normalizer's error                              *)
(***************************************************************************)

\* `preview` is the first characters of `text`, at most `most` of them, and
\* all of them when the text is not longer.
FirstCharacters(preview, text, most) ==
    /\ Len(preview) <= most
    /\ Len(preview) <= Len(text)
    /\ Len(preview) = most \/ Len(preview) = Len(text)
    /\ \A i \in 1..Len(preview) : preview[i] = text[i]
    /\ \A i \in (most + 1)..Len(text) : text[i] \notin Range(preview)

\* C20: the error of the normalizer carries a cut preview of the payload: the
\* first 400 characters, at most, of a string that is not JSON, and the first
\* 800 characters, at most, of the serialized value that has no `choices`
\* (no preview text when the value has no serialization); no character of the
\* payload beyond that length is in the preview.
C20_PreviewIsBounded ==
    normalized.state = "thrown" =>
        IF transport.is_string /\ ~transport.json_valid
        THEN /\ normalized.preview.defined
             /\ FirstCharacters(normalized.preview.text, transport.chars, 400)
        ELSE IF transport.value.kind = "undefined"
        THEN normalized.preview = [defined |-> FALSE, text |-> <<>>]
        ELSE /\ normalized.preview.defined
             /\ FirstCharacters(normalized.preview.text,
                                transport.value.json, 800)

\* A string of more than 400 characters that is not JSON was rejected with a
\* preview of 400 characters.
C20_Witness ==
    /\ normalized.state = "thrown"
    /\ transport.is_string
    /\ ~transport.json_valid
    /\ Len(transport.chars) > 400
    /\ Len(normalized.preview.text) = 400


(***************************************************************************)
(* The server registry taken alone: a caller fills a registry, then asks   *)
(* it for descriptors with one credential map.                             *)
(***************************************************************************)
\* No inference call is under way.
LoopIdle ==
    /\ request = [messages |-> Seed, responseFormat |-> NoFormat]
    /\ mcpClients = <<>>
    /\ messages = <<>>
    /\ iterationCount = 0
    /\ finalMessage = FALSE
    /\ chatRequest = NoRequest
    /\ modelResponse = Undefined
    /\ toolCalls = <<>>
    /\ toolIdx = 0
    /\ toolResults = <<>>
    /\ result = NoResult
    /\ error = NoError
    /\ completionCalls = 0
    /\ invoked = <<>>
    /\ finalSetAt = 0
    /\ deviations = 0
    /\ transport = NoTransport
    /\ normalized = NotNormalized

RegistryInit ==
    /\ LoopIdle
    /\ pc = "registry"
    /\ factories = <<>>
    /\ credentialsMap \in CredentialMaps
    /\ reports = <<>>
    /\ enough = NotAsked
    /\ FactoryIdle
    /\ ConnectIdle
    /\ RunIdle
    /\ LoaderIdle

\* registry.register(factory), before the registry is asked
Register(factory) ==
    /\ pc = "registry"
    /\ reports = <<>>
    /\ Len(register(factories, factory)) <= MaxFactories
    /\ factories' = register(factories, factory)
    /\ UNCHANGED <<credentialsMap, reports, enough, outsideRegistry>>

\* One call as the history keeps it: the registry and the map it was made
\* with, and what it returned.
Call(method, report) ==
    [method |-> method, factories |-> factories,
     credentialsMap |-> credentialsMap, report |-> report]

CreateConfigsWithAvailability ==
    /\ pc = "registry"
    /\ Len(reports) < MaxCalls
    /\ LET report == createConfigsWithAvailability(factories, credentialsMap)
       IN /\ reports' = Append(reports,
                               Call("createConfigsWithAvailability", report))
          /\ credentialsMap' = report.map
    /\ UNCHANGED <<factories, enough, outsideRegistry>>

CreateConfigs ==
    /\ pc = "registry"
    /\ Len(reports) < MaxCalls
    /\ LET configs == createConfigs(factories, credentialsMap)
       IN /\ reports' = Append(reports, Call("createConfigs", configs))
          /\ credentialsMap' = configs.map
    /\ UNCHANGED <<factories, enough, outsideRegistry>>

\* the argument lists hasMinimumServers is called with after the report
MinimumArgs == {<<>>} \cup {<<n>> : n \in 0..(MaxFactories + 1)}

\* registry.hasMinimumServers(report, ...args) on the latest report
HasMinimumServers(args) ==
    /\ pc = "registry"
    /\ reports # <<>>
    /\ reports[Len(reports)].method = "createConfigsWithAvailability"
    /\ reports[Len(reports)].report.error = NoError
    /\ enough' = [report |-> Len(reports), args |-> args,
                  value |-> hasMinimumServers(reports[Len(reports)].report,
                                              args)]
    /\ UNCHANGED <<factories, credentialsMap, reports, outsideRegistry>>

RegistryNext ==
    \/ \E factory \in AllFactories : Register(factory)
    \/ CreateConfigsWithAvailability
    \/ CreateConfigs
    \/ \E args \in MinimumArgs : HasMinimumServers(args)

RegistrySpec == RegistryInit /\ [][RegistryNext]_vars

\* The reports of createConfigsWithAvailability in the history.
AvailabilityCalls ==
    {i \in 1..Len(reports) :
        reports[i].method = "createConfigsWithAvailability"}

\* C21: every report of createConfigsWithAvailability is returned, not
\* thrown; each factory of the registry has exactly one entry in it, among
\* the available descriptors or among the unavailable servers, so the two
\* lengths add up to the number of factories; and the summary holds the
\* number of factories and the two lengths.
C21_EveryFactoryOnce ==
    \A i \in AvailabilityCalls :
        LET call == reports[i]
            report == call.report
            ids == {call.factories[k].id : k \in 1..Len(call.factories)}
            inAvailable(id) ==
                {k \in 1..Len(report.available) : report.available[k].id = id}
            inUnavailable(id) ==
                {k \in 1..Len(report.unavailable) :
                    report.unavailable[k].serverId = id}
        IN /\ report.error = NoError
           /\ Len(report.available) + Len(report.unavailable)
                  = Len(call.factories)
           /\ \A id \in ids :
                  Cardinality(inAvailable(id))
                      + Cardinality(inUnavailable(id)) = 1
           /\ \A k \in 1..Len(report.available) : report.available[k].id \in ids
           /\ \A k \in 1..Len(report.unavailable) :
                  report.unavailable[k].serverId \in ids
           /\ report.summary = [total |-> Len(call.factories),
                                available |-> Len(report.available),
                                unavailable |-> Len(report.unavailable)]

\* a report over a full registry with entries on both sides
C21_Witness ==
    \E i \in AvailabilityCalls :
        /\ Len(reports[i].factories) = MaxFactories
        /\ Len(reports[i].report.available) > 0
        /\ Len(reports[i].report.unavailable) > 1


\* Position of the factory of a server id in a registry.
RegisteredAt(registry, id) ==
    CHOOSE k \in 1..Len(registry) : registry[k].id = id

\* C22: in every list of available descriptors returned by
\* createConfigsWithAvailability or createConfigs, a descriptor that comes
\* earlier has a priority that is lower than, or equal to, the priority of
\* every descriptor after it, and of two descriptors of equal priority the
\* one whose factory was registered first comes first.
C22_SortedByPriority ==
    \A i \in 1..Len(reports) :
        LET available == reports[i].report.available
            registry == reports[i].factories
        IN \A j, k \in 1..Len(available) :
               j < k =>
                   /\ available[j].priority <= available[k].priority
                   /\ available[j].priority = available[k].priority
                          => RegisteredAt(registry, available[j].id)
                                 < RegisteredAt(registry, available[k].id)

\* The error text ends the reason.
EndsWith(text, end) ==
    /\ Len(end) <= Len(text)
    /\ SubSeq(text, Len(text) - Len(end) + 1, Len(text)) = end

\* The status of the entry of a server id among the unavailable servers,
\* "available" when the id has a descriptor, "" when it has neither.
StatusIn(report, id) ==
    IF \E k \in 1..Len(report.available) : report.available[k].id = id
    THEN "available"
    ELSE IF \E k \in 1..Len(report.unavailable) :
                report.unavailable[k].serverId = id
    THEN LET k == CHOOSE k \in 1..Len(report.unavailable) :
                      report.unavailable[k].serverId = id
         IN report.unavailable[k].status
    ELSE ""
ReasonIn(report, id) ==
    LET k == CHOOSE k \in 1..Len(report.unavailable) :
                 report.unavailable[k].serverId = id
    IN report.unavailable[k].reason

\* C23: in every report of createConfigsWithAvailability, a factory with
\* no bag in the map for which the empty bag is not valid is unavailable
\* with status credentials-missing; a factory whose bag is present and not
\* valid is unavailable with status invalid-credentials; a factory whose
\* bag (the empty bag when none is given) is valid has its descriptor among
\* the available ones when the build returns, and is unavailable with
\* status connection-failed and a reason ending in the error text when the
\* build throws.  The report is returned, and every factory has its entry,
\* the ones registered after a factory whose build throws too.
C23_Classified ==
    \A i \in AvailabilityCalls :
        LET call == reports[i]
            report == call.report
        IN /\ report.error = NoError
           /\ \A k \in 1..Len(call.factories) :
                  LET factory == call.factories[k]
                      given == factory.id \in DOMAIN call.credentialsMap
                      bag == IF given THEN call.credentialsMap[factory.id]
                             ELSE EmptyBag
                      valid == isCredentialsValid(factory, bag)
                      made == createServerConfig(factory, bag)
                      status == StatusIn(report, factory.id)
                  IN /\ ~given /\ ~valid => status = "credentials-missing"
                     /\ given /\ ~valid => status = "invalid-credentials"
                     /\ valid /\ made.error = NoError =>
                            /\ status = "available"
                            /\ \E a \in 1..Len(report.available) :
                                   report.available[a] = made.config
                     /\ valid /\ made.error # NoError =>
                            /\ status = "connection-failed"
                            /\ EndsWith(ReasonIn(report, factory.id),
                                        made.error)

\* a factory whose build throws is registered before one that is available,
\* and both have their entry
C23_Witness ==
    \E i \in AvailabilityCalls :
        LET call == reports[i]
        IN /\ Len(call.factories) > 1
           /\ call.factories[1] = MockFactory
           /\ StatusIn(call.report, MockFactory.id) = "connection-failed"
           /\ ReasonIn(call.report, MockFactory.id)
                  = "Failed to create config: Error: Configuration creation failed"
           /\ StatusIn(call.report, call.factories[2].id) = "available"

\* The server ids and statuses of the unavailable servers, in order.
Statuses(unavailable) ==
    [k \in 1..Len(unavailable) |->
        <<unavailable[k].serverId, unavailable[k].status>>]

C25_HasMinimumServers ==
    enough.report > 0 =>
        LET length == Len(reports[enough.report].report.available)
        IN /\ enough.args = <<>> => enough.value = (length >= 1)
           /\ enough.args # <<>> => enough.value = (length >= enough.args[1])
           /\ enough.args = <<0>> => enough.value = TRUE
           /\ enough.args = <<length + 1>> => enough.value = FALSE

\* asked with exactly the number of available descriptors, which is not 0
C25_Witness ==
    /\ enough.report > 0
    /\ enough.args = <<Len(reports[enough.report].report.available)>>
    /\ enough.args # <<0>>
    /\ enough.value = TRUE


(***************************************************************************)
(* One built-in factory taken alone: isCredentialsValid and                *)
(* createServerConfig are called with one credential bag.                  *)
(***************************************************************************)
FactoryInit ==
    /\ LoopIdle
    /\ RegistryIdle
    /\ pc = "factory"
    /\ subject \in BuiltInFactories
    /\ handed \in Bags
    /\ verdict = NoVerdict
    /\ ConnectIdle
    /\ RunIdle
    /\ LoaderIdle

\* factory.isCredentialsValid(credentials)
IsCredentialsValid ==
    /\ pc = "factory"
    /\ verdict.validity = "unasked"
    /\ verdict' = [verdict EXCEPT
                      !.validity = IF isCredentialsValid(subject, handed)
                                   THEN "valid" ELSE "invalid"]
    /\ UNCHANGED <<subject, handed, outsideFactory>>

\* factory.createServerConfig(credentials)
CreateServerConfig ==
    /\ pc = "factory"
    /\ verdict.build.state = "unasked"
    /\ LET made == createServerConfig(subject, handed)
       IN verdict' = [verdict EXCEPT
                         !.build = [state |-> IF made.error = NoError
                                              THEN "returned" ELSE "thrown",
                                    error |-> made.error,
                                    config |-> made.config]]
    /\ UNCHANGED <<subject, handed, outsideFactory>>

FactoryNext ==
    \/ IsCredentialsValid
    \/ CreateServerConfig

FactorySpec == FactoryInit /\ [][FactoryNext]_vars

\* The fields each built-in factory documents as required.
RequiredOf(factory) ==
    CASE factory.id \in {"github", "sentry"} -> {"token"}
      [] factory.id = "datadog" -> {"apiKey", "appKey"}
      [] factory.id = "azure" -> {"clientId", "clientSecret", "tenantId"}

Contains(text, part) ==
    \E i \in 1..(Len(text) - Len(part) + 1) :
        SubSeq(text, i, i + Len(part) - 1) = part

\* C26: for each built-in factory and each credential bag, once both
\* methods have been called with the bag, createServerConfig has thrown
\* exactly when isCredentialsValid returned false; the message of the
\* thrown error contains the name of a required field that the bag lacks
\* (absent or empty); isCredentialsValid returns a boolean, it does not
\* throw; and no call changes the bag or the factory.
C26_ThrowsIffInvalid ==
    /\ [](/\ verdict.validity \in {"unasked", "valid", "invalid"}
          /\ verdict.validity # "unasked" /\ verdict.build.state # "unasked"
                 => (verdict.build.state = "thrown"
                         <=> verdict.validity = "invalid")
          /\ verdict.build.state = "thrown" =>
                 \E field \in RequiredOf(subject) :
                     /\ Falsy(handed[field])
                     /\ Contains(verdict.build.error, field))
    /\ [][handed' = handed /\ subject' = subject]_vars

\* the Datadog factory with an apiKey and an empty appKey: not valid, and
\* the build throws naming appKey
C26_Witness ==
    /\ subject = DatadogMCPFactory
    /\ handed = [Bag({"apiKey"}) EXCEPT !.appKey = ""]
    /\ verdict.validity = "invalid"
    /\ verdict.build.state = "thrown"
    /\ verdict.build.error = "Datadog MCP requires appKey"


(***************************************************************************)
(* One call of connectToMCPServer or connectToMCPServerWithFiltering       *)
(* taken alone.  The server is the environment: the handshake and the      *)
(* tool listing each resolve or reject.                                    *)
(***************************************************************************)
ConnectInit ==
    /\ LoopIdle
    /\ RegistryIdle
    /\ FactoryIdle
    /\ pc = "connect"
    /\ target \in Descriptors
    /\ \E method \in ConnectMethods :
           /\ connection = Called(method)
           /\ IF method = "connectToMCPServerWithFiltering"
              THEN allowList \in AllowLists
              ELSE allowList = <<>>
    /\ RunIdle
    /\ LoaderIdle

\* The call up to `await client.connect(transport)`; an error of the
\* descriptor or of the transport goes to the catch block.
StartConnection ==
    /\ pc = "connect"
    /\ connection.stage = "called"
    /\ LET made == NewTransport(target)
       IN connection' =
              IF made.error # NoError
              THEN [connection EXCEPT !.stage = "settled",
                                      !.failedAt = made.step,
                                      !.outcome = CatchConnect(made.error)]
              ELSE [connection EXCEPT !.stage = "connecting",
                                      !.client = Client(made.transport)]
    /\ UNCHANGED <<target, allowList, outsideConnect>>

\* client.connect resolves; listTools is awaited
HandshakeResolves ==
    /\ pc = "connect"
    /\ connection.stage = "connecting"
    /\ connection' = [connection EXCEPT !.stage = "listing"]
    /\ UNCHANGED <<target, allowList, outsideConnect>>

HandshakeRejects ==
    /\ pc = "connect"
    /\ connection.stage = "connecting"
    /\ connection' = [connection EXCEPT
                         !.stage = "settled",
                         !.failedAt = "handshake",
                         !.outcome = CatchConnect("handshake failed")]
    /\ UNCHANGED <<target, allowList, outsideConnect>>

\* listTools resolves: the tools are filtered and mapped, the handle is
\* returned
ListToolsResolves(response) ==
    /\ pc = "connect"
    /\ connection.stage = "listing"
    /\ connection' = [connection EXCEPT
                         !.stage = "settled",
                         !.response = response,
                         !.outcome =
                             Resolved(ServerClient(target, connection.client,
                                 MappedTools(connection.method, response,
                                             allowList)))]
    /\ UNCHANGED <<target, allowList, outsideConnect>>

ListToolsRejects ==
    /\ pc = "connect"
    /\ connection.stage = "listing"
    /\ connection' = [connection EXCEPT
                         !.stage = "settled",
                         !.failedAt = "listing",
                         !.outcome = CatchConnect("listing failed")]
    /\ UNCHANGED <<target, allowList, outsideConnect>>

ConnectNext ==
    \/ StartConnection
    \/ HandshakeResolves
    \/ HandshakeRejects
    \/ \E response \in ToolsResponses : ListToolsResolves(response)
    \/ ListToolsRejects

ConnectSpec == ConnectInit /\ [][ConnectNext]_vars

\* C27: the promise of a connect function is never rejected.  Once the
\* call has settled it has resolved: with null when the descriptor was not
\* valid for its transport kind, or the transport could not be built, or
\* the handshake or the tool listing failed; otherwise with a handle that
\* has connected = TRUE and holds the descriptor of the call, the client
\* made for it, and the tool definitions mapped from the listing (all of
\* them, one by one and in order, for connectToMCPServer).
C27_ConnectNeverThrows ==
    /\ connection.outcome.state # "rejected"
    /\ connection.stage = "settled" =>
           /\ connection.outcome.state = "resolved"
           /\ connection.failedAt # "" => connection.outcome.null
           /\ connection.failedAt = "" =>
                  LET handle == connection.outcome.handle
                      listed == connection.response.tools
                  IN /\ ~connection.outcome.null
                     /\ handle.connected = TRUE
                     /\ handle.config = target
                     /\ handle.client = connection.client
                     /\ handle.client.transport
                            \in {"StreamableHTTPClientTransport",
                                 "StdioClientTransport"}
                     /\ \A k \in 1..Len(handle.tools) :
                            /\ handle.tools[k].type = "function"
                            /\ \E i \in 1..Len(listed) :
                                   handle.tools[k].function.name
                                       = listed[i].name
                     /\ connection.method = "connectToMCPServer" =>
                            /\ Len(handle.tools) = Len(listed)
                            /\ \A k \in 1..Len(listed) :
                                   handle.tools[k].function =
                                       [name |-> listed[k].name,
                                        description |-> listed[k].description,
                                        parameters |-> listed[k].inputSchema]

\* the handshake succeeded and the tool listing failed: null
C27_Witness ==
    /\ connection.stage = "settled"
    /\ connection.failedAt = "listing"
    /\ connection.client # NoClient
    /\ connection.outcome.state = "resolved"
    /\ connection.outcome.null

\* The places of the listing whose tool name is in the allow-list.
AllowedPlaces ==
    {i \in 1..Len(connection.response.tools) :
        \E a \in 1..Len(allowList) :
            allowList[a] = connection.response.tools[i].name}
\* the k-th of them
AllowedPlace(k) ==
    CHOOSE i \in AllowedPlaces :
        Cardinality({j \in AllowedPlaces : j < i}) = k - 1

\* C28: when connectToMCPServerWithFiltering, called with an allow-list
\* that is not empty, resolves after a tool listing, it resolves with a
\* handle that has connected = TRUE, and the tools of the handle are the
\* listed tools whose name is in the allow-list, each once per listing
\* place and in listing order; with none of the listed names in the
\* allow-list the handle has no tools.
C28_FilteredTools ==
    /\ connection.method = "connectToMCPServerWithFiltering"
    /\ allowList # <<>>
    /\ connection.stage = "settled"
    /\ connection.failedAt = ""
    => LET handle == connection.outcome.handle
           listed == connection.response.tools
       IN /\ ~connection.outcome.null
          /\ handle.connected = TRUE
          /\ Len(handle.tools) = Cardinality(AllowedPlaces)
          /\ \A k \in 1..Len(handle.tools) :
                 handle.tools[k].function.name = listed[AllowedPlace(k)].name
          /\ AllowedPlaces = {} => handle.tools = <<>>

\* two tools listed, the first outside the allow-list and the second in it
C28_Witness ==
    /\ connection.method = "connectToMCPServerWithFiltering"
    /\ allowList = <<"b", "a">>
    /\ connection.stage = "settled"
    /\ connection.failedAt = ""
    /\ Len(connection.response.tools) = 2
    /\ connection.response.tools[1].name = "c"
    /\ connection.response.tools[2].name = "a"
    /\ Len(connection.outcome.handle.tools) = 1
    /\ connection.outcome.handle.tools[1].function.name = "a"


(***************************************************************************)
(* One run of the action taken alone.  The connect functions and the two   *)
(* inference paths are the environment: each connection resolves to a      *)
(* handle or to null, the inference resolves or rejects.                   *)
(***************************************************************************)
RunInit ==
    /\ LoopIdle
    /\ RegistryIdle
    /\ FactoryIdle
    /\ ConnectIdle
    /\ LoaderIdle
    /\ pc = "run"
    /\ inputs \in ActionInputs
    /\ running = Started

\* run() up to its first await: the request is built, or the setup throws
\* and the run fails; then the switch, the configuration file and either
\* simpleInference or the first connection.
RunStarts ==
    /\ pc = "run"
    /\ running.stage = "start"
    /\ running' =
           IF ~inputs.promptSet
           THEN [running EXCEPT !.stage = "failed", !.failed = SetupFailure]
           ELSE IF ~EnableMcp(inputs)
           THEN [running EXCEPT
                    !.stage = "inferring",
                    !.inferences = <<Inference("simpleInference", <<>>)>>]
           ELSE IF Len(inputs.mcpConfig) = 0
           THEN [running EXCEPT
                    !.stage = "inferring",
                    !.loaded = TRUE,
                    !.inferences = <<Inference("simpleInference", <<>>)>>]
           ELSE [running EXCEPT
                    !.stage = "connecting",
                    !.loaded = TRUE,
                    !.serverConfigs = inputs.mcpConfig,
                    !.index = 1,
                    !.attempts = <<Attempt(inputs.mcpConfig[1])>>]
    /\ UNCHANGED <<inputs, outsideRun>>

\* The connection awaited resolves; the loop goes to the next server, or
\* ends and one inference path is invoked.
ConnectionSettles(outcome) ==
    /\ pc = "run"
    /\ running.stage = "connecting"
    /\ outcome \in ConnectOutcomes(running.serverConfigs[running.index])
    /\ LET clients == Collected(running.connectedClients, outcome)
           settled == [running.attempts EXCEPT
                          ![running.index].connected =
                              IF outcome.null THEN "no" ELSE "yes"]
       IN running' =
              IF running.index < Len(running.serverConfigs)
              THEN [running EXCEPT
                       !.index = running.index + 1,
                       !.connectedClients = clients,
                       !.attempts =
                           Append(settled,
                                  Attempt(running.serverConfigs[
                                              running.index + 1]))]
              ELSE [running EXCEPT
                       !.stage = "inferring",
                       !.connectedClients = clients,
                       !.attempts = settled,
                       !.inferences =
                           Append(running.inferences, Dispatch(clients))]
    /\ UNCHANGED <<inputs, outsideRun>>

\* the inference resolves: the outputs are set and the run exits with 0
InferenceResolves(response) ==
    /\ pc = "run"
    /\ running.stage = "inferring"
    /\ running' = [running EXCEPT !.stage = "exited",
                                  !.modelResponse = response,
                                  !.output = OrEmpty(response)]
    /\ UNCHANGED <<inputs, outsideRun>>

\* the inference rejects: setFailed, and the run exits with 1
InferenceRejects ==
    /\ pc = "run"
    /\ running.stage = "inferring"
    /\ running' = [running EXCEPT !.stage = "failed",
                                  !.failed = InferenceFailure]
    /\ UNCHANGED <<inputs, outsideRun>>

RunNext ==
    \/ RunStarts
    \/ \E outcome \in {NotConnected}
                          \cup {Connected(config) :
                                   config \in {RunConfig(k, tools) :
                                       k \in 1..MaxServers,
                                       tools \in ToolChoices}} :
           ConnectionSettles(outcome)
    \/ \E response \in InferenceResponses : InferenceResolves(response)
    \/ InferenceRejects

RunSpec == RunInit /\ [][RunNext]_vars

\* The run is over.
RunOver == running.stage \in {"exited", "failed"}

\* The attempts that ended with a handle.
ConnectedPlaces ==
    {k \in 1..Len(running.attempts) : running.attempts[k].connected = "yes"}

\* The run takes the tool-free path: orchestration is disabled, or no
\* server is configured, or no connection ended with a handle.
SimpleCase ==
    \/ ~(inputs.enableMcp \/ inputs.enableGithubMcp)
    \/ Len(inputs.mcpConfig) = 0
    \/ ConnectedPlaces = {}

\* The inference path invoked is the one the claim names.
RightPath ==
    /\ SimpleCase => running.inferences[1].path = "simpleInference"
    /\ ~SimpleCase =>
           /\ running.inferences[1].path = "multiMcpInference"
           /\ running.inferences[1].clients # <<>>

\* C29 as stated: every run that is over has invoked exactly one inference
\* path, exactly once, simpleInference when orchestration is disabled, no
\* server is configured or none connected, multiMcpInference with a list
\* of handles that is not empty otherwise.
C29_Original ==
    RunOver => Len(running.inferences) = 1 /\ RightPath

\* C29: no run invokes more than one inference path or one path more than
\* once.  A run whose setup throws before the request is built invokes
\* none; every other run invokes exactly one path exactly once:
\* simpleInference when orchestration is disabled, no server is configured
\* or no server connected, and multiMcpInference with a list of handles
\* that is not empty otherwise.
C29_OneInferencePath ==
    /\ Len(running.inferences) <= 1
    /\ RunOver /\ running.failed = SetupFailure =>
           Len(running.inferences) = 0
    /\ RunOver /\ running.failed # SetupFailure =>
           Len(running.inferences) = 1
    /\ Len(running.inferences) = 1 => inputs.promptSet /\ RightPath

\* a run over with multiMcpInference invoked although the first of two
\* servers did not connect
C29_Witness ==
    /\ running.stage = "exited"
    /\ Len(running.inferences) = 1
    /\ running.inferences[1].path = "multiMcpInference"
    /\ Len(running.attempts) = 2
    /\ running.attempts[1].connected = "no"
    /\ Len(running.inferences[1].clients) = 1

\* the k-th attempt that ended with a handle
ConnectedPlace(k) ==
    CHOOSE i \in ConnectedPlaces :
        Cardinality({j \in ConnectedPlaces : j < i}) = k - 1

\* The handle list passed to multiMcpInference holds, in configuration
\* order, the handle of each server whose attempt ended with a handle.
ConnectedHandles ==
    Len(running.inferences) = 1
        /\ running.inferences[1].path = "multiMcpInference" =>
        LET clients == running.inferences[1].clients
        IN /\ Len(clients) = Cardinality(ConnectedPlaces)
           /\ \A k \in 1..Len(clients) :
                  /\ clients[k].config = inputs.mcpConfig[ConnectedPlace(k)]
                  /\ clients[k].connected = TRUE

\* C30 as stated: in every run that is over, every server of the
\* configuration has had exactly one connection attempt, the attempts were
\* made in configuration order, and the handle list passed to
\* multiMcpInference is the connected servers in configuration order.
C30_Original ==
    RunOver =>
        /\ Len(running.attempts) = Len(inputs.mcpConfig)
        /\ \A k \in 1..Len(running.attempts) :
               running.attempts[k].id = inputs.mcpConfig[k].id
        /\ ConnectedHandles

\* C30: a run with orchestration disabled, or whose setup throws, attempts
\* no connection.  In every other run the attempts made so far are the
\* first servers of the configuration, one attempt per server and in
\* configuration order, whatever the earlier attempts ended with; once an
\* inference path is invoked every configured server has had its attempt;
\* and the handle list passed to multiMcpInference holds, in configuration
\* order, the handle of each server whose attempt ended with a handle, and
\* nothing else.
C30_EveryServerAttempted ==
    /\ ~inputs.promptSet \/ ~(inputs.enableMcp \/ inputs.enableGithubMcp)
           => running.attempts = <<>>
    /\ Len(running.attempts) <= Len(inputs.mcpConfig)
    /\ \A k \in 1..Len(running.attempts) :
           running.attempts[k].id = inputs.mcpConfig[k].id
    /\ running.stage = "connecting" =>
           /\ Len(running.attempts) = running.index
           /\ \A k \in 1..(running.index - 1) :
                  running.attempts[k].connected # "pending"
    /\ Len(running.inferences) = 1
           /\ inputs.promptSet /\ (inputs.enableMcp \/ inputs.enableGithubMcp)
           => /\ Len(running.attempts) = Len(inputs.mcpConfig)
              /\ \A k \in 1..Len(running.attempts) :
                     running.attempts[k].connected \in {"yes", "no"}
    /\ ConnectedHandles

\* three servers, the second did not connect: multiMcpInference gets the
\* handles of the first and the third
C30_Witness ==
    /\ Len(running.inferences) = 1
    /\ running.inferences[1].path = "multiMcpInference"
    /\ Len(running.attempts) = 3
    /\ running.attempts[1].connected = "yes"
    /\ running.attempts[2].connected = "no"
    /\ running.attempts[3].connected = "yes"
    /\ Len(running.inferences[1].clients) = 2
    /\ running.inferences[1].clients[2].config.id = "server3"

(***************************************************************************)
(* The configuration loader taken alone: loadMCPConfig and                 *)
(* processConfigWithEnvVars are each called once on one file.              *)
(***************************************************************************)
LoaderInit ==
    /\ LoopIdle
    /\ RegistryIdle
    /\ FactoryIdle
    /\ ConnectIdle
    /\ RunIdle
    /\ pc = "loader"
    /\ configFile \in ConfigFiles
    /\ loadResult = [loadMCPConfig |-> NotCalled,
                     processConfigWithEnvVars |-> NotCalled]

\* loadMCPConfig(configPath)
LoadMCPConfig ==
    /\ pc = "loader"
    /\ ~loadResult.loadMCPConfig.called
    /\ loadResult' = [loadResult EXCEPT
                         !.loadMCPConfig = CallOutcome(loadMCPConfig(configFile))]
    /\ UNCHANGED <<configFile, outsideLoader>>

\* processConfigWithEnvVars(config) on the parsed file, when it is an
\* object with an `mcpServers` object
ProcessConfigWithEnvVars ==
    /\ pc = "loader"
    /\ ~loadResult.processConfigWithEnvVars.called
    /\ configFile.exists /\ configFile.parses
    /\ configFile.value = "object" /\ configFile.mcpServers = "object"
    /\ loadResult' =
           [loadResult EXCEPT
               !.processConfigWithEnvVars =
                   CallOutcome(processConfigWithEnvVars(configFile.entries,
                                                        configFile.env))]
    /\ UNCHANGED <<configFile, outsideLoader>>

LoaderNext == LoadMCPConfig \/ ProcessConfigWithEnvVars

LoaderSpec == LoaderInit /\ [][LoaderNext]_vars

\* the descriptors loadMCPConfig returned
LoadedConfigs == loadResult.loadMCPConfig.returned.configs
\* the servers processConfigWithEnvVars returned
ProcessedServers == loadResult.processConfigWithEnvVars.returned.servers

\* C31: loadMCPConfig and processConfigWithEnvVars carry the `tools` of each
\* server through unchanged: the descriptor of a server configured with a
\* `tools` array has that array as its `tools` (the empty array included),
\* the descriptor of a server configured without one has no `tools`, and
\* the processed server of processConfigWithEnvVars has the `tools` of the
\* server it was made from.
C31_ToolsCarried ==
    /\ loadResult.loadMCPConfig.called =>
           \A i \in 1..Len(LoadedConfigs) :
               \A k \in 1..Len(configFile.entries) :
                   LoadedConfigs[i].id = ServerName(k) =>
                       LoadedConfigs[i].tools = configFile.entries[k].tools
    /\ (/\ loadResult.processConfigWithEnvVars.called
        /\ loadResult.processConfigWithEnvVars.returned.error = NoError) =>
           \A k \in 1..Len(ProcessedServers) :
               ProcessedServers[k].tools = configFile.entries[k].tools

\* the entry has a truthy `url` or a truthy `command`
Usable(server) == ~Falsy(server.url) \/ ~Falsy(server.command)
UsablePlace(k) == Usable(configFile.entries[k])
\* the places of the usable entries of the file, in the file's order
UsablePlaces ==
    SelectSeq([k \in 1..Len(configFile.entries) |-> k], UsablePlace)
\* the file is there, parses to an object, and its `mcpServers` is an
\* object whose entries are all objects
WellFormed ==
    /\ configFile.exists /\ configFile.parses
    /\ configFile.value = "object" /\ configFile.mcpServers = "object"
    /\ \A k \in 1..Len(configFile.entries) : ~configFile.entries[k].null

C32_FilteringWhenToolsGiven ==
    inputs.promptSet /\ (inputs.enableMcp \/ inputs.enableGithubMcp) =>
        /\ Len(running.inferences) = 1 =>
               Len(running.attempts) = Len(inputs.mcpConfig)
        /\ \A k \in 1..Len(running.attempts) :
               /\ running.attempts[k].id = inputs.mcpConfig[k].id
               /\ IF inputs.mcpConfig[k].tools.given
                  THEN /\ running.attempts[k].method =
                              "connectToMCPServerWithFiltering"
                       /\ running.attempts[k].allowedTools =
                              inputs.mcpConfig[k].tools.names
                  ELSE running.attempts[k].method = "connectToMCPServer"

(***************************************************************************)
(* C33: an invocation stays inside the tool list of its handle             *)
(***************************************************************************)

\* For every handle list and every server id of it, the names the handles
\* with that id advertise.
AdvertisedBy ==
    [clients \in ClientLists |->
        [id \in {clients[h].id : h \in 1..Len(clients)} |->
            UNION {Range(clients[h].tools) :
                      h \in {g \in 1..Len(clients) : clients[g].id = id}}]]

\* C33: every callTool of multiMcpInference is made on a handle of the
\* list, for a name that is in the tool list of that handle: whatever the
\* model answers, no tool is invoked on a server that does not advertise it
\* (a tool its allow-list filtered out is not in the handle's list).
C33_OnlyAdvertisedTools ==
    \A j \in 1..Len(invoked) :
        /\ invoked[j].server \in DOMAIN AdvertisedBy[mcpClients]
        /\ invoked[j].name \in AdvertisedBy[mcpClients][invoked[j].server]

\* The run is over; the model asked for "a", which only the first handle
\* advertises, and for "s", and each went to a handle that advertises it.
C33_Witness ==
    /\ LoopRun
    /\ pc = "done"
    /\ Len(invoked) = 2
    /\ invoked[1].name = "a" /\ invoked[1].server = "github"
    /\ invoked[2].name = "s" /\ invoked[2].server = "sentry"

(***************************************************************************)
(* C34: the aggregated tool list and the routing table                     *)
(***************************************************************************)

\* the names that have an entry in the routing table
RoutedNames == {n \in ToolNames : ToolToServer(mcpClients)[n] # 0}

\* C34: the tool list of a completion call of the loop holds every name a
\* handle advertises, each name once; the names in it are the keys of the
\* routing table; and each tool is tagged with the id and the name of the
\* handle the routing table routes its name to.
C34_AggregatedToolList ==
    LoopRun /\ chatRequest.has_tools =>
        LET tools == chatRequest.tools
            names == {tools[i].name : i \in 1..Len(tools)}
        IN /\ names = OfferedBy[mcpClients]
           /\ names = RoutedNames
           /\ \A i, j \in 1..Len(tools) :
                  tools[i].name = tools[j].name => i = j
           /\ \A i \in 1..Len(tools) :
                  LET owner == mcpClients[ToolToServer(mcpClients)[tools[i].name]]
                  IN /\ tools[i].serverId = owner.id
                     /\ tools[i].serverName = owner.name

(***************************************************************************)
(* C35: the value returned with a response format                          *)
(***************************************************************************)

\* The function returns from an answer without tool calls (inference.ts:158,
\* or :59 for simpleInference).
NormalExit == pc \in {"await", "simpleAwait"} /\ pc' = "done"

\* Without a response format no completion call carries one and no
\* reformat message is appended.
NoFormatNoSchema ==
    ~FormatRequested =>
        /\ chatRequest.response_format = NoFormat
        /\ ~finalMessage
        /\ finalSetAt = 0
        /\ LoopRun => ReformatPositions = {}

\* C35 as stated: with a response format, the value returned by the normal
\* exit is the content of the answer to a completion call that carried the
\* schema; without one no call carries a schema and no reformat message is
\* appended.
C35_Original ==
    /\ []NoFormatNoSchema
    /\ [][(FormatRequested /\ NormalExit) =>
              /\ chatRequest.response_format = request.responseFormat
              /\ result' = modelResponse']_vars

\* C35: with a response format, the normal exit is taken on the answer to a
\* completion call that carried the schema (and no tools), and the value
\* returned is the content of that answer, or null when the content is
\* empty or absent; without a response format no completion call carries a
\* schema, the final-pass flag is never set and no reformat message is
\* appended.
C35_SchemaAnswerReturned ==
    /\ []NoFormatNoSchema
    /\ [][(FormatRequested /\ NormalExit) =>
              /\ chatRequest.response_format = request.responseFormat
              /\ ~chatRequest.has_tools
              /\ result' = IF modelResponse' \in {Null, Undefined, ""}
                           THEN Null ELSE modelResponse']_vars

\* A run with a response format used a tool, went through the reformat
\* pass and returned a text.
C35_Witness ==
    /\ LoopRun /\ FormatRequested
    /\ pc = "done"
    /\ Len(invoked) >= 1
    /\ finalSetAt >= 2
    /\ completionCalls = finalSetAt + 1
    /\ result \notin {Null, NoResult}
    /\ result = modelResponse

(***************************************************************************)
(* C36: the final pass                                                     *)
(***************************************************************************)

\* The reformat message is appended at most once, and only with a response
\* format; the final-pass flag, once set, stays set; and a completion call
\* issued with the flag set offers no tools.
FinalPassKept ==
    /\ Cardinality(ReformatPositions) <= 1
    /\ ReformatPositions # {} => FormatRequested /\ finalSetAt > 0
    /\ finalSetAt > 0 => finalMessage
    /\ finalMessage /\ pc = "await" => ~chatRequest.has_tools

\* C36: in one run of the loop the reformat message is appended at most
\* once and only when a response format was requested; once the final-pass
\* flag is set it is never cleared, no later completion call offers tools,
\* and no tool is invoked on any server from then on.
C36_FinalPassIsFinal ==
    LoopRun =>
        /\ FinalPassKept
        /\ finalSetAt > 0 =>
               \A j \in 1..Len(invoked) : invoked[j].at[1] <= finalSetAt

(***************************************************************************)
(* C37: the content of a tool-result message                               *)
(***************************************************************************)

\* C37: every tool-result message of the conversation, and every result
\* collected for the batch under way, has a string as its content (never
\* undefined or null), whatever the tool returned: the text blocks joined,
\* the string itself, or the serialization of the value.
C37_ResultContentIsString ==
    LoopRun =>
        /\ \A i \in Appended :
               messages[i].role = "tool" =>
                   messages[i].content \notin {Undefined, Null}
        /\ \A i \in 1..Len(toolResults) :
               toolResults[i].content \notin {Undefined, Null}


(***************************************************************************)
(* C38: a routable tool call whose arguments are not JSON                  *)
(***************************************************************************)

\* The loop is at a tool call that some handle offers and whose argument
\* text is not JSON.
AtInvalidArguments ==
    /\ pc = "tools"
    /\ toolIdx <= Len(toolCalls)
    /\ Owners(toolCalls[toolIdx].name) # {}
    /\ toolCalls[toolIdx].arguments = "{bad"

====
